---- MODULE Spec2Model ----
(***************************************************************************)
(* The chat/message store of WebChatFront: the reducer of                  *)
(* src/contexts/ChatContext.tsx, the commands of ChatProvider and the      *)
(* realtime 'message received' handler, as a state machine.                *)
(*                                                                         *)
(* A timestamp is carried as the epoch-millisecond number its ISO string   *)
(* denotes (what new Date(s).getTime() yields); Date.now() is the clock.   *)
(* Console logging, the messageEmitter notification of the view and the    *)
(* messageUpdateTrigger render nonce carry no chat data and are left out.  *)
(***************************************************************************)
EXTENDS Integers, Sequences, FiniteSets, TLC

VARIABLES
    activeChat,         \* state.activeChat (the chat's id, NoChat for null)
    activeChatRef,      \* activeChatRef.current
    messages,           \* state.messages: chatId -> timeline
    unreadCounts,       \* state.unreadCounts: chatId -> count (absent = 0)
    newMessageCallback, \* newMessageCallbackRef.current is set
    now,                \* index of the current clock instant
    sends,              \* the sendMessage calls: their locals and position
    loads,              \* chatId -> number of loadMessages fetches in flight
    last,               \* the last command or event handled, with its outputs
    chats,              \* state.chats: the chat list
    onlineUsers,        \* state.onlineUsers
    typingUsers,        \* state.typingUsers: chatId -> typing entries
    isConnected,        \* state.isConnected
    build,              \* which of the two SignalRService classes is bundled
    connection,         \* signalRService.connection: a hub connection or none
    serviceConnected,   \* signalRService.isConnected
    hubs,               \* the hub connections built so far
    calls,              \* the start() and stop() calls in flight
    handlersSet,        \* the provider has assigned the service's callbacks
    listenersTimer,     \* the constructor's setTimeout is still pending
    torn,               \* the provider effect's cleanup has run
    creates,            \* the createChat call in flight
    isTypingState,      \* ChatWindow's isTyping state
    typingTimeout       \* typingTimeoutRef.current and its callback's closure

vars == << activeChat, activeChatRef, messages, unreadCounts,
           newMessageCallback, now, sends, loads, last,
           chats, onlineUsers, typingUsers, isConnected,
           build, connection, serviceConnected, hubs, calls, handlersSet,
           listenersTimer, torn, creates, isTypingState, typingTimeout >>

\* The chat list and the presence part of the state
listAndPresence == << chats, onlineUsers, typingUsers, isConnected >>

\* The realtime channel client
channelVars == << build, connection, serviceConnected, hubs, calls,
                 handlersSet, listenersTimer >>

\* The message composer of ChatWindow
composerVars == << isTypingState, typingTimeout >>

\* What the store's reducer and the message commands leave alone
clientVars == << channelVars, composerVars, torn, creates >>

----------------------------------------------------------------------------
(* Bounds of the model *)

MaxTimeline == 2
MaxTick == 1
MaxSends == 2
MaxLoads == 1
MaxUnread == 2

(* Values the inputs are drawn from *)

Chats == {1, 2}
NoChat == 0
Self == 1
Users == {1, 2}
Contents == {"a", "b"}
ServerIds == {7, 8}
PayloadIds == {0} \cup ServerIds
Usernames == {"", "bob"}

DupWindow == 500

\* The clock instants, in epoch milliseconds: gaps of 500, 1, 498, 498, ...
Instant(k) ==
    IF k = 0 THEN 1000
    ELSE IF k = 1 THEN 1500
    ELSE 1501 + 498 * (k - 2)

DateNow == Instant(now)

Abs(x) == IF x < 0 THEN -x ELSE x

----------------------------------------------------------------------------
(* Records *)

SelfUser == [id |-> Self, username |-> "me", createdAt |-> "t0"]

UserLabel(id) == "User " \o ToString(id)

\* The MessageData payloads of the realtime channel
MessageDatas ==
    { [idIsString |-> s, id |-> i, chatId |-> c, senderId |-> u,
       senderUsername |-> n, content |-> x, timestamp |-> Instant(k),
       status |-> "sent"] :
        s \in BOOLEAN, i \in PayloadIds, c \in Chats, u \in Users,
        n \in Usernames, x \in Contents, k \in 0..2 }

RealtimePayloads ==
    { p \in MessageDatas :
        /\ p.idIsString => p.id = 0
        /\ p.senderId = Self => p.senderUsername = "" }

----------------------------------------------------------------------------
(* chatReducer *)

\* ADD_MESSAGE, conversion of the payload to a Message; t is Date.now()
NewMessage(p, t) ==
    IF "sender" \in DOMAIN p
    THEN p
    ELSE [id |-> IF p.idIsString THEN t ELSE p.id,
          chatId |-> p.chatId,
          senderId |-> p.senderId,
          sender |-> [id |-> p.senderId,
                      username |-> IF p.senderUsername # ""
                                   THEN p.senderUsername
                                   ELSE UserLabel(p.senderId),
                      createdAt |-> ""],
          content |-> p.content,
          timestamp |-> p.timestamp,
          status |-> p.status]

\* Mutant: the ids are never compared
MessageExistsIgnoringIds(currentMessages, newMessage) ==
    \E k \in 1..Len(currentMessages) :
        LET msg == currentMessages[k] IN
        /\ msg.senderId = newMessage.senderId
        /\ msg.content = newMessage.content
        /\ Abs(msg.timestamp - newMessage.timestamp) < DupWindow

\* Mutant: the window includes its end
MessageExistsInclusive(currentMessages, newMessage) ==
    \E k \in 1..Len(currentMessages) :
        LET msg == currentMessages[k] IN
        IF msg.id > 0 /\ newMessage.id > 0
        THEN msg.id = newMessage.id
        ELSE /\ msg.senderId = newMessage.senderId
             /\ msg.content = newMessage.content
             /\ Abs(msg.timestamp - newMessage.timestamp) <= DupWindow

\* ADD_MESSAGE, the duplicate test against the chat's current timeline
MessageExists(currentMessages, newMessage) ==
    \E k \in 1..Len(currentMessages) :
        LET msg == currentMessages[k] IN
        IF msg.id > 0 /\ newMessage.id > 0
        THEN msg.id = newMessage.id
        ELSE /\ msg.senderId = newMessage.senderId
             /\ msg.content = newMessage.content
             /\ Abs(msg.timestamp - newMessage.timestamp) < DupWindow

\* Mutant: a new message is put in front of the timeline
AddMessagePrepends(ms, p, t) ==
    LET newMessage == NewMessage(p, t)
        chatId == newMessage.chatId
    IN  IF MessageExists(ms[chatId], newMessage)
        THEN ms
        ELSE [ms EXCEPT ![chatId] = << newMessage >> \o @]

\* ADD_MESSAGE
AddMessage(ms, p, t) ==
    LET newMessage == NewMessage(p, t)
        chatId == newMessage.chatId
    IN  IF MessageExists(ms[chatId], newMessage)
        THEN ms
        ELSE [ms EXCEPT ![chatId] = Append(@, newMessage)]

\* { ...msg, ...updates }
Merge(msg, updates) ==
    [f \in DOMAIN msg |-> IF f \in DOMAIN updates THEN updates[f] ELSE msg[f]]

UpdateMessage(ms, updateChatId, messageId, updates) ==
    [ms EXCEPT ![updateChatId] =
        [k \in 1..Len(@) |->
            IF @[k].id = messageId THEN Merge(@[k], updates) ELSE @[k]]]

\* Mutant: the page is merged into the timeline
SetMessagesMerged(ms, chatId, page) == [ms EXCEPT ![chatId] = @ \o page]

SetMessages(ms, chatId, page) == [ms EXCEPT ![chatId] = page]

IncrementUnread(u, chatId) == [u EXCEPT ![chatId] = @ + 1]

\* Mutant: every counter is reset
ClearUnreadAll(u, chatId) == [c \in DOMAIN u |-> 0]

ClearUnread(u, chatId) == [u EXCEPT ![chatId] = 0]

\* Mutant: the online event is appended without looking for the user
UserOnlineAlways(online, payload) == Append(online, payload)

\* USER_ONLINE
UserOnline(online, payload) ==
    IF \E k \in 1..Len(online) : online[k].userId = payload.userId
    THEN online
    ELSE Append(online, payload)

\* USER_OFFLINE
UserOffline(online, userId) ==
    SelectSeq(online, LAMBDA u : u.userId # userId)

\* SET_TYPING
SetTyping(typing, chatId, users) == [typing EXCEPT ![chatId] = users]

\* REMOVE_CHAT, the chat list
RemoveChat(list, chatId) == SelectSeq(list, LAMBDA chat : chat.id # chatId)

\* REMOVE_CHAT, the active selection
ActiveAfterRemove(active, chatId) ==
    IF active = chatId THEN NoChat ELSE active

----------------------------------------------------------------------------
(* SignalRService: the realtime channel client. The source holds two        *)
(* versions of the class; build says which of them the bundle carries       *)

Builds == {1, 2}
NoConnection == 0
MaxConnections == 3
MaxCalls == 3
Connections == 1..MaxConnections

signalRUrl == "signalRUrl"
signalRUrlHttp == "signalRUrlHttp"

\* null returned by the retry policy: stop retrying
NoRetry == -1
maxReconnectAttempts == 5
RetryDelays == << 0, 2000, 10000, 30000 >>
RetryBase == 1000
RetryCap == 30000

RECURSIVE Pow(_, _)
Pow(b, n) == IF n = 0 THEN 1 ELSE b * Pow(b, n - 1)

Min(a, b) == IF a <= b THEN a ELSE b

\* Mutant: the policy keeps retrying after the maximum number of attempts
NextRetryDelayUnlimited(b, previousRetryCount) ==
    IF previousRetryCount >= maxReconnectAttempts + 2 THEN NoRetry
    ELSE Min(RetryBase * Pow(2, previousRetryCount), RetryCap)

\* withAutomaticReconnect: the delay before the next retry, NoRetry for none.
\* Build 1 passes an array of delays, build 2 a policy function
NextRetryDelayInMilliseconds(b, previousRetryCount) ==
    IF b = 1
    THEN IF previousRetryCount < Len(RetryDelays)
         THEN RetryDelays[previousRetryCount + 1]
         ELSE NoRetry
    ELSE IF previousRetryCount >= maxReconnectAttempts
         THEN NoRetry
         ELSE Min(RetryBase * Pow(2, previousRetryCount), RetryCap)

\* A hub connection: its state, the url it was built for, whether its
\* start() ever succeeded, how many handlers each server event has, the
\* delays of the retries made since the connection was last lost, whether
\* JoinUser was invoked on it and the chats JoinChat was invoked for
NoHub == [state |-> "none", url |-> "", started |-> FALSE, handlers |-> 0,
          delays |-> << >>, user |-> FALSE, rooms |-> {}]

\* HubConnectionBuilder ... build() followed by setupConnectionEvents()
NewHub(url) == [state |-> "Connecting", url |-> url, started |-> FALSE,
                handlers |-> 1, delays |-> << >>, user |-> FALSE,
                rooms |-> {}]

\* connection.stop() was called on the hub
HubStopping(h) ==
    IF h.state \in {"none", "Disconnected"} THEN h
    ELSE [h EXCEPT !.state = "Disconnecting"]

\* connection.stop() completed; the server has dropped the connection and
\* with it the user and the rooms joined on it
HubClosed(h) == [h EXCEPT !.state = "Disconnected", !.started = FALSE,
                          !.user = FALSE, !.rooms = {}]

\* onclose fires when a hub that had started is closed
CloseFires(h) == h.state = "Disconnecting" /\ h.started

\* The test every outbound method makes before it invokes
CanInvoke == connection # NoConnection /\ serviceConnected

\* joinUser(user.id, user.username) with this.connection = conn and
\* this.isConnected = connected; hs is the hubs as the caller leaves them.
\* An invocation reaches the server when the hub is connected
JoinUser(hs, conn, connected) ==
    IF conn # NoConnection /\ connected /\ hs[conn].state = "Connected"
    THEN [hs EXCEPT ![conn].user = TRUE]
    ELSE hs

\* Mutant: joining a room leaves the rooms joined before
JoinChatLeaves(hs, chatId) ==
    IF CanInvoke /\ hs[connection].state = "Connected"
    THEN [hs EXCEPT ![connection].rooms = {chatId}]
    ELSE hs

\* joinChat(chatId); hs is the hubs as the caller leaves them
JoinChat(hs, chatId) ==
    IF CanInvoke /\ hs[connection].state = "Connected"
    THEN [hs EXCEPT ![connection].rooms = @ \cup {chatId}]
    ELSE hs

IdleCall == [op |-> "none", pc |-> "idle", conn |-> NoConnection,
             url |-> "", tried |-> << >>]

\* The service as constructed at module load; build 2's constructor arms
\* the setupEventListeners timer
ServiceConstructed ==
    /\ build \in Builds
    /\ connection = NoConnection
    /\ serviceConnected = FALSE
    /\ hubs = [c \in Connections |-> NoHub]
    /\ calls = [i \in 1..MaxCalls |-> IdleCall]
    /\ handlersSet = FALSE
    /\ listenersTimer = (build = 2)

\* createChat is not running
IdleCreate == [pc |-> "idle", endpoint |-> "", body |-> << >>,
               listed |-> {}, chat |-> NoChat]

\* typingTimeoutRef.current is null
NoTimeout == [armed |-> FALSE, isTyping |-> FALSE, chatId |-> NoChat]

----------------------------------------------------------------------------
(* ChatProvider: commands and handlers *)

IdleSend == [pc |-> "idle", chatId |-> NoChat, content |-> "", tempId |-> 0,
             at |-> 0, pos |-> 0, lenAfter |-> 0, requests |-> 0]

Init ==
    /\ activeChat = NoChat
    /\ activeChatRef = NoChat
    /\ messages = [c \in Chats |-> << >>]
    /\ unreadCounts = [c \in Chats |-> 0]
    /\ newMessageCallback = FALSE
    /\ now = 0
    /\ sends = [i \in 1..MaxSends |-> IdleSend]
    /\ loads = [c \in Chats |-> 0]
    /\ last = [op |-> "init"]
    /\ chats = << >>
    /\ onlineUsers = << >>
    /\ typingUsers = [c \in Chats |-> << >>]
    /\ isConnected = FALSE
    /\ ServiceConstructed
    /\ torn = FALSE
    /\ creates = IdleCreate
    /\ isTypingState = FALSE
    /\ typingTimeout = NoTimeout

Bounded(ms) == \A c \in Chats : Len(ms[c]) <= MaxTimeline

\* Time passes
Tick ==
    /\ now < MaxTick
    /\ now' = now + 1
    /\ UNCHANGED << activeChat, activeChatRef, messages, unreadCounts,
                    newMessageCallback, sends, loads, last >>
    /\ UNCHANGED listAndPresence
    /\ UNCHANGED clientVars

\* The effect that keeps activeChatRef synchronized runs after the render
\* that committed a new state.activeChat
SyncActiveChatRef ==
    /\ activeChatRef # activeChat
    /\ activeChatRef' = activeChat
    /\ UNCHANGED << activeChat, messages, unreadCounts, newMessageCallback,
                    now, sends, loads, last >>
    /\ UNCHANGED listAndPresence
    /\ UNCHANGED clientVars

SetOnNewMessage(callback) ==
    /\ newMessageCallback # callback
    /\ newMessageCallback' = callback
    /\ last' = [op |-> "setOnNewMessage"]
    /\ UNCHANGED << activeChat, activeChatRef, messages, unreadCounts,
                    now, sends, loads >>
    /\ UNCHANGED listAndPresence
    /\ UNCHANGED clientVars

\* signalRService.onReceiveMessage
IsActiveChat(p) == activeChatRef # NoChat /\ p.chatId = activeChatRef
IsOwnMessage(p) == p.senderId = Self

SenderName(p) ==
    IF p.senderUsername # "" THEN p.senderUsername ELSE UserLabel(p.senderId)

ReceiveMessage(p) ==
    LET counted == ~IsActiveChat(p) /\ ~IsOwnMessage(p) IN
    /\ messages' = AddMessage(messages, p, DateNow)
    /\ Bounded(messages')
    /\ counted => unreadCounts[p.chatId] < MaxUnread
    /\ unreadCounts' = IF counted
                       THEN IncrementUnread(unreadCounts, p.chatId)
                       ELSE unreadCounts
    /\ last' = [op |-> "ReceiveMessage", payload |-> p,
                notified |-> IF counted /\ newMessageCallback
                             THEN << p.chatId, SenderName(p), p.content >>
                             ELSE << >>]
    /\ UNCHANGED << activeChat, activeChatRef, newMessageCallback, now,
                    sends, loads >>
    /\ UNCHANGED listAndPresence
    /\ UNCHANGED clientVars

\* sendMessage up to the await of the HTTP request
TempMessage(chatId, content, t) ==
    [id |-> t, chatId |-> chatId, senderId |-> Self, sender |-> SelfUser,
     content |-> content, timestamp |-> t, status |-> "sent"]

FreeSlot(i) ==
    /\ sends[i].pc = "idle"
    /\ \A j \in 1..(i - 1) : sends[j].pc # "idle"

SendMessage(chatId, content) ==
    \E i \in 1..MaxSends :
        /\ FreeSlot(i)
        /\ messages' = AddMessage(messages, TempMessage(chatId, content, DateNow),
                                  DateNow)
        /\ Bounded(messages')
        /\ sends' = [sends EXCEPT ![i] =
                        [pc |-> "awaiting", chatId |-> chatId,
                         content |-> content, tempId |-> DateNow, at |-> now,
                         pos |-> IF messages' = messages THEN 0
                                 ELSE Len(messages'[chatId]),
                         lenAfter |-> Len(messages'[chatId]),
                         requests |-> 1]]
        /\ last' = [op |-> "sendMessage", slot |-> i]
        /\ UNCHANGED << activeChat, activeChatRef, unreadCounts,
                        newMessageCallback, now, loads >>
        /\ UNCHANGED listAndPresence
    /\ UNCHANGED clientVars

\* The id the server assigns to the message of call i
ServerIdOf(i) == 6 + i

\* The responses the server may give to the request of call i
SavedMessages(i) ==
    { [id |-> d, timestamp |-> DateNow, status |-> "delivered"] :
        d \in {ServerIdOf(i), sends[i].tempId} }

\* sendMessage after the request resolved
SendResolved(i, savedMessage) ==
    /\ sends[i].pc = "awaiting"
    /\ messages' = IF savedMessage.id # sends[i].tempId
                   THEN UpdateMessage(messages, sends[i].chatId, sends[i].tempId,
                                      [id |-> savedMessage.id,
                                       timestamp |-> savedMessage.timestamp,
                                       status |-> savedMessage.status])
                   ELSE messages
    /\ sends' = [sends EXCEPT ![i].pc = "done"]
    /\ last' = [op |-> "sendMessageResolved", slot |-> i,
                saved |-> savedMessage, thrown |-> FALSE]
    /\ UNCHANGED << activeChat, activeChatRef, unreadCounts,
                    newMessageCallback, now, loads >>
    /\ UNCHANGED listAndPresence
    /\ UNCHANGED clientVars

\* sendMessage after the request rejected: the catch block
SendRejected(i) ==
    /\ sends[i].pc = "awaiting"
    /\ messages' = UpdateMessage(messages, sends[i].chatId, sends[i].tempId,
                                 [status |-> "failed"])
    /\ sends' = [sends EXCEPT ![i].pc = "failed"]
    /\ last' = [op |-> "sendMessageRejected", slot |-> i, thrown |-> TRUE]
    /\ UNCHANGED << activeChat, activeChatRef, unreadCounts,
                    newMessageCallback, now, loads >>
    /\ UNCHANGED listAndPresence
    /\ UNCHANGED clientVars

\* setActiveChat; chat is a chat's id or NoChat for null
SetActiveChat(chat) ==
    /\ activeChat' = chat
    /\ IF chat # NoChat
       THEN /\ loads[chat] < MaxLoads
            /\ unreadCounts' = ClearUnread(unreadCounts, chat)
            /\ loads' = [loads EXCEPT ![chat] = @ + 1]
            /\ hubs' = JoinChat(hubs, chat)
            /\ last' = [op |-> "setActiveChat", chat |-> chat,
                        unreadBefore |-> unreadCounts[chat],
                        joinChat |-> << chat >>]
       ELSE /\ UNCHANGED << unreadCounts, loads, hubs >>
            /\ last' = [op |-> "setActiveChat", chat |-> chat,
                        unreadBefore |-> 0, joinChat |-> << >>]
    /\ UNCHANGED << activeChatRef, messages, newMessageCallback, now, sends >>
    /\ UNCHANGED listAndPresence
    /\ UNCHANGED << build, connection, serviceConnected, calls, handlersSet,
                    listenersTimer, composerVars, torn, creates >>

\* The pages chatService.getChatMessages may return, senders resolved
FetchedMessages(chatId) ==
    { [id |-> d, chatId |-> chatId, senderId |-> u,
       sender |-> IF u = Self THEN SelfUser
                  ELSE [id |-> u, username |-> "bob", createdAt |-> "t0"],
       content |-> x, timestamp |-> Instant(0), status |-> "delivered"] :
        d \in ServerIds, u \in Users, x \in Contents }

FetchedPages(chatId) ==
    { << >> } \cup { << m >> : m \in FetchedMessages(chatId) }

\* enrichMessagesWithUserData: the message already has a resolved sender
HasSender(msg) == "sender" \in DOMAIN msg /\ msg.sender.username # ""

\* What chatService.getUserById(id) resolves to
UserRecord(id) ==
    IF id = Self THEN SelfUser
    ELSE [id |-> id, username |-> "bob", createdAt |-> "t0"]

\* The identity synthesized when the lookup fails
PlaceholderUser(id) == [id |-> id, username |-> UserLabel(id), createdAt |-> ""]

\* { ...msg, sender: senderInfo }
WithSender(msg, senderInfo) ==
    [f \in DOMAIN msg \cup {"sender"} |->
        IF f = "sender" THEN senderInfo ELSE msg[f]]

\* The getUserById requests of one enrichMessagesWithUserData call, in the
\* order issued. messages.map starts every callback before any await
\* resumes, and userCache is written only after a lookup has settled, so
\* every callback of a message without sender finds the cache empty.
RECURSIVE LookupsFrom(_, _, _)
LookupsFrom(page, k, userCache) ==
    IF k > Len(page) THEN << >>
    ELSE IF HasSender(page[k]) \/ page[k].senderId \in userCache
         THEN LookupsFrom(page, k + 1, userCache)
         ELSE << page[k].senderId >> \o LookupsFrom(page, k + 1, userCache)

LookupsIssued(page) == LookupsFrom(page, 1, {})

\* enrichMessagesWithUserData; found[k] tells whether the lookup issued for
\* message k resolved (TRUE) or rejected (FALSE)
EnrichMessagesWithUserData(page, found) ==
    [k \in 1..Len(page) |->
        IF HasSender(page[k]) THEN page[k]
        ELSE WithSender(page[k],
                        IF found[k] THEN UserRecord(page[k].senderId)
                        ELSE PlaceholderUser(page[k].senderId))]

\* The outcomes of the lookups of one call
LookupOutcomes(page) ==
    { found \in [1..Len(page) -> BOOLEAN] :
        \A k \in 1..Len(page) : HasSender(page[k]) => found[k] }

\* loadMessages after the fetch and the enrichment resolved
LoadMessagesResolved(chatId, page) ==
    \E found \in LookupOutcomes(page) :
        /\ loads[chatId] > 0
        /\ loads' = [loads EXCEPT ![chatId] = @ - 1]
        /\ messages' = SetMessages(messages, chatId,
                                   EnrichMessagesWithUserData(page, found))
        /\ last' = [op |-> "loadMessagesResolved", chat |-> chatId,
                    page |-> page, found |-> found,
                    lookups |-> LookupsIssued(page),
                    before |-> messages[chatId]]
        /\ UNCHANGED << activeChat, activeChatRef, unreadCounts,
                        newMessageCallback, now, sends >>
        /\ UNCHANGED listAndPresence
    /\ UNCHANGED clientVars

\* loadMessages after the fetch rejected: the catch block only logs
LoadMessagesRejected(chatId) ==
    /\ loads[chatId] > 0
    /\ loads' = [loads EXCEPT ![chatId] = @ - 1]
    /\ last' = [op |-> "loadMessagesRejected", chat |-> chatId]
    /\ UNCHANGED << activeChat, activeChatRef, messages, unreadCounts,
                    newMessageCallback, now, sends >>
    /\ UNCHANGED listAndPresence
    /\ UNCHANGED clientVars

\* chatUtils normalizeChat; t is the current time. A raw participant has
\* userId and username ("" when absent) and neither chatId, joinedAt nor user
NormalizeParticipant(rawChat, participant, t) ==
    LET name == IF participant.username # "" THEN participant.username
                ELSE "Unknown User"
    IN  [chatId |-> rawChat.id,
         userId |-> participant.userId,
         joinedAt |-> t,
         user |-> [id |-> participant.userId, username |-> name,
                   createdAt |-> t],
         username |-> name]

NormalizeChat(rawChat, t) ==
    [id |-> rawChat.id,
     name |-> rawChat.name,
     type |-> IF rawChat.type # "" THEN rawChat.type ELSE "direct",
     createdAt |-> rawChat.createdAt,
     participants |->
        IF "participants" \in DOMAIN rawChat
        THEN [k \in 1..Len(rawChat.participants) |->
                NormalizeParticipant(rawChat, rawChat.participants[k], t)]
        ELSE << >>,
     messages |-> << >>]

\* chat.participants.find(p => p.userId !== currentUserId): its index, 0 for
\* undefined
FindOther(participants, currentUserId) ==
    LET others == { k \in 1..Len(participants) :
                        participants[k].userId # currentUserId }
    IN  IF others = {} THEN 0
        ELSE CHOOSE k \in others : \A j \in others : k <= j

\* Mutant: the first participant is taken for the other one
GetChatDisplayNameFirst(chat, currentUserId) ==
    IF chat.type = "group" THEN chat.name
    ELSE IF Len(chat.participants) = 0 THEN "Unknown User"
    ELSE chat.participants[1].username

\* chatUtils getChatDisplayName
GetChatDisplayName(chat, currentUserId) ==
    IF chat.type = "group" THEN chat.name
    ELSE LET k == FindOther(chat.participants, currentUserId)
         IN  IF k = 0 THEN "Unknown User"
             ELSE LET otherParticipant == chat.participants[k]
                  IN  IF otherParticipant.user.username # ""
                      THEN otherParticipant.user.username
                      ELSE IF otherParticipant.username # ""
                           THEN otherParticipant.username
                           ELSE "Unknown User"

\* The chats chatService.getUserChats may return
RawChat(id, type, withParticipants) ==
    LET chat == [id |-> id, name |-> "room", type |-> type,
                 createdAt |-> "t0"]
    IN  IF withParticipants
        THEN [f \in DOMAIN chat \cup {"participants"} |->
                IF f = "participants"
                THEN << [userId |-> Self, username |-> "me"],
                        [userId |-> 2, username |-> ""] >>
                ELSE chat[f]]
        ELSE chat

RawChats ==
    { RawChat(id, type, withParticipants) :
        id \in Chats, type \in {"", "group"}, withParticipants \in BOOLEAN }

RawChatLists ==
    { << >> } \cup { << a >> : a \in RawChats }
    \cup { << a, b >> : a \in { r \in RawChats : r.id = 2 },
                        b \in { r \in RawChats : r.id = 1 } }

\* loadChats after the request resolved
LoadChatsResolved(rawChats) ==
    /\ chats' = [k \in 1..Len(rawChats) |-> NormalizeChat(rawChats[k], DateNow)]
    /\ last' = [op |-> "loadChatsResolved", raw |-> rawChats,
                thrown |-> FALSE]
    /\ UNCHANGED << activeChat, activeChatRef, messages, unreadCounts,
                    newMessageCallback, now, sends, loads,
                    onlineUsers, typingUsers, isConnected >>
    /\ UNCHANGED clientVars

\* Mutant: a failed refresh empties the chat list
LoadChatsRejectedClears ==
    /\ chats' = << >>
    /\ last' = [op |-> "loadChatsRejected", thrown |-> FALSE]
    /\ UNCHANGED << activeChat, activeChatRef, messages, unreadCounts,
                    newMessageCallback, now, sends, loads,
                    onlineUsers, typingUsers, isConnected >>
    /\ UNCHANGED clientVars

\* loadChats after the request rejected: the catch block only logs
LoadChatsRejected ==
    /\ last' = [op |-> "loadChatsRejected", thrown |-> FALSE]
    /\ UNCHANGED << activeChat, activeChatRef, messages, unreadCounts,
                    newMessageCallback, now, sends, loads >>
    /\ UNCHANGED listAndPresence
    /\ UNCHANGED clientVars

\* deleteChat after the request resolved
DeleteChatResolved(chatId) ==
    /\ chats' = RemoveChat(chats, chatId)
    /\ activeChat' = ActiveAfterRemove(activeChat, chatId)
    /\ last' = [op |-> "deleteChatResolved", chat |-> chatId,
                activeBefore |-> activeChat, listBefore |-> chats,
                thrown |-> FALSE]
    /\ UNCHANGED << activeChatRef, messages, unreadCounts,
                    newMessageCallback, now, sends, loads,
                    onlineUsers, typingUsers, isConnected >>
    /\ UNCHANGED clientVars

\* Mutant: the chat is removed before the request has succeeded
DeleteChatRejectedRemoves(chatId) ==
    /\ chats' = RemoveChat(chats, chatId)
    /\ activeChat' = ActiveAfterRemove(activeChat, chatId)
    /\ last' = [op |-> "deleteChatRejected", chat |-> chatId,
                thrown |-> TRUE]
    /\ UNCHANGED << activeChatRef, messages, unreadCounts,
                    newMessageCallback, now, sends, loads,
                    onlineUsers, typingUsers, isConnected >>
    /\ UNCHANGED clientVars

\* deleteChat after the request rejected: the catch block logs and rethrows
DeleteChatRejected(chatId) ==
    /\ last' = [op |-> "deleteChatRejected", chat |-> chatId,
                thrown |-> TRUE]
    /\ UNCHANGED << activeChat, activeChatRef, messages, unreadCounts,
                    newMessageCallback, now, sends, loads >>
    /\ UNCHANGED listAndPresence
    /\ UNCHANGED clientVars

\* signalRService.onUserOnline
OnUserOnline(userId, username) ==
    /\ onlineUsers' = UserOnline(onlineUsers,
                                 [userId |-> userId, username |-> username])
    /\ last' = [op |-> "userOnline", userId |-> userId,
                username |-> username]
    /\ UNCHANGED << activeChat, activeChatRef, messages, unreadCounts,
                    newMessageCallback, now, sends, loads,
                    chats, typingUsers, isConnected >>
    /\ UNCHANGED clientVars

\* signalRService.onUserOffline
OnUserOffline(userId) ==
    /\ onlineUsers' = UserOffline(onlineUsers, userId)
    /\ last' = [op |-> "userOffline", userId |-> userId]
    /\ UNCHANGED << activeChat, activeChatRef, messages, unreadCounts,
                    newMessageCallback, now, sends, loads,
                    chats, typingUsers, isConnected >>
    /\ UNCHANGED clientVars

\* state.typingUsers as the onUserTyping handler reads it: the handler is
\* created by the effect of the first render (dependencies [user]) and
\* closes over that render's state, the initial state
ClosureTypingUsers == [c \in Chats |-> << >>]

\* signalRService.onUserTyping; chatId is NoChat when the event has none
OnUserTyping(userId, username, isTyping, chatId) ==
    /\ IF chatId # NoChat
       THEN LET currentTyping == ClosureTypingUsers[chatId]
                newTyping ==
                    IF isTyping
                    THEN IF \E k \in 1..Len(currentTyping) :
                                currentTyping[k].userId = userId
                         THEN currentTyping
                         ELSE Append(currentTyping,
                                     [userId |-> userId,
                                      username |-> username,
                                      isTyping |-> isTyping])
                    ELSE SelectSeq(currentTyping,
                                   LAMBDA u : u.userId # userId)
            IN  typingUsers' = SetTyping(typingUsers, chatId, newTyping)
       ELSE typingUsers' = typingUsers
    /\ last' = [op |-> "userTyping", userId |-> userId,
                username |-> username, isTyping |-> isTyping,
                chatId |-> chatId]
    /\ UNCHANGED << activeChat, activeChatRef, messages, unreadCounts,
                    newMessageCallback, now, sends, loads,
                    chats, onlineUsers, isConnected >>
    /\ UNCHANGED clientVars

\* Mutant: a disconnect also empties the presence and typing collections
OnConnectionStateChangedClears(connected) ==
    /\ isConnected' = connected
    /\ onlineUsers' = IF connected THEN onlineUsers ELSE << >>
    /\ typingUsers' = IF connected THEN typingUsers
                      ELSE [c \in Chats |-> << >>]
    /\ last' = [op |-> "connectionStateChanged", connected |-> connected]
    /\ UNCHANGED << activeChat, activeChatRef, messages, unreadCounts,
                    newMessageCallback, now, sends, loads, chats >>
    /\ UNCHANGED clientVars

\* signalRService.onConnectionStateChanged: SET_CONNECTION_STATUS
OnConnectionStateChanged(connected) ==
    /\ isConnected' = connected
    /\ last' = [op |-> "connectionStateChanged", connected |-> connected]
    /\ UNCHANGED << activeChat, activeChatRef, messages, unreadCounts,
                    newMessageCallback, now, sends, loads,
                    chats, onlineUsers, typingUsers >>
    /\ UNCHANGED clientVars

----------------------------------------------------------------------------
(* SignalRService: start, stop, reconnection, outbound calls and events *)

\* What the channel client never touches, the connection flag of the store
\* and the history aside
channelFrame == << activeChat, activeChatRef, messages, unreadCounts,
                  newMessageCallback, now, sends, loads,
                  chats, onlineUsers, typingUsers,
                  composerVars, torn, creates >>

\* this.onConnectionStateChanged?.(connected)
Notified(connected) == IF handlersSet THEN connected ELSE isConnected

HasFresh == \E c \in Connections : hubs[c].state = "none"

FreshConnection ==
    CHOOSE c \in Connections :
        /\ hubs[c].state = "none"
        /\ \A d \in Connections : hubs[d].state = "none" => c <= d

StartAwaited(c) ==
    \E j \in 1..MaxCalls :
        calls[j].op = "start" /\ calls[j].pc = "starting" /\ calls[j].conn = c

FirstIdle(i) ==
    /\ calls[i] = IdleCall
    /\ \A j \in 1..MaxCalls : j < i => calls[j] # IdleCall

\* Reconnect attempts are exhausted and the connection has closed
PermanentlyDown ==
    /\ connection # NoConnection
    /\ hubs[connection].state = "Disconnected"
    /\ hubs[connection].delays # << >>
    /\ NextRetryDelayInMilliseconds(build, Len(hubs[connection].delays))
            = NoRetry

\* A new hub connection is built, becomes this.connection and is started;
\* hs is the hubs as the caller leaves them
BuildAndStart(i, hs, url, tried) ==
    /\ HasFresh
    /\ hubs' = [hs EXCEPT ![FreshConnection] = NewHub(url)]
    /\ connection' = FreshConnection
    /\ calls' = [calls EXCEPT ![i] =
                    [op |-> "start", pc |-> "starting",
                     conn |-> FreshConnection, url |-> url,
                     tried |-> Append(tried, url)]]

\* Build 2, createConnection up to its first await: an existing connection
\* is stopped first
CreateConnection(i, hs, url, tried) ==
    IF connection # NoConnection
    THEN /\ hubs' = [hs EXCEPT ![connection] = HubStopping(@)]
         /\ calls' = [calls EXCEPT ![i] =
                        [op |-> "start", pc |-> "closing",
                         conn |-> connection, url |-> url, tried |-> tried]]
         /\ UNCHANGED connection
    ELSE BuildAndStart(i, hs, url, tried)

\* The early return of start()
StartReturnsEarly ==
    IF build = 1 THEN connection # NoConnection
    ELSE connection # NoConnection /\ serviceConnected

\* start() up to its first await. It is called by initializeChat, which
\* assigns the service's callbacks and calls joinUser once start() has
\* resolved
StartCall(i) ==
    /\ FirstIdle(i)
    /\ IF StartReturnsEarly
       THEN /\ handlersSet' = TRUE
            /\ hubs' = JoinUser(hubs, connection, serviceConnected)
            /\ UNCHANGED << connection, calls >>
       ELSE /\ IF build = 1
               THEN BuildAndStart(i, hubs, signalRUrl, << >>)
               ELSE CreateConnection(i, hubs, signalRUrl, << >>)
            /\ UNCHANGED handlersSet
    /\ last' = [op |-> "start", early |-> StartReturnsEarly,
                down |-> PermanentlyDown, connected |-> serviceConnected]
    /\ UNCHANGED << build, serviceConnected, listenersTimer, isConnected >>
    /\ UNCHANGED channelFrame

\* Build 2: the stop() of the previous connection resolved; createConnection
\* goes on with a new connection. The rejection of a start() that the stop
\* interrupted is handled before the stop() resolves
CloseResolved(i) ==
    /\ calls[i].op = "start" /\ calls[i].pc = "closing"
    /\ ~StartAwaited(calls[i].conn)
    /\ LET c == calls[i].conn
           fired == CloseFires(hubs[c])
       IN  /\ BuildAndStart(i, [hubs EXCEPT ![c] = HubClosed(@)],
                            calls[i].url, calls[i].tried)
           /\ serviceConnected' = IF fired THEN FALSE ELSE serviceConnected
           /\ isConnected' = IF fired THEN Notified(FALSE) ELSE isConnected
    /\ last' = [op |-> "closeResolved"]
    /\ UNCHANGED << build, handlersSet, listenersTimer >>
    /\ UNCHANGED channelFrame

\* connection.start() resolved
StartResolved(i) ==
    /\ calls[i].op = "start" /\ calls[i].pc = "starting"
    /\ hubs[calls[i].conn].state = "Connecting"
    /\ hubs' = JoinUser([hubs EXCEPT ![calls[i].conn] =
                            [@ EXCEPT !.state = "Connected",
                                      !.started = TRUE]],
                         connection, TRUE)
    /\ serviceConnected' = TRUE
    /\ isConnected' = Notified(TRUE)
    /\ handlersSet' = TRUE
    /\ calls' = [calls EXCEPT ![i] = IdleCall]
    /\ last' = [op |-> "startDone", outcome |-> "resolved",
                tried |-> calls[i].tried]
    /\ UNCHANGED << build, connection, listenersTimer >>
    /\ UNCHANGED channelFrame

\* connection.start() rejected: the url is unreachable or the connection was
\* stopped meanwhile. The primary url is followed by the fallback url
StartRejected(i) ==
    /\ calls[i].op = "start" /\ calls[i].pc = "starting"
    /\ hubs[calls[i].conn].state \in {"Connecting", "Disconnecting"}
    /\ LET c == calls[i].conn
           hs == [hubs EXCEPT ![c] =
                    IF @.state = "Connecting"
                    THEN [@ EXCEPT !.state = "Disconnected"] ELSE @]
       IN  IF calls[i].url = signalRUrl
           THEN /\ IF build = 1
                   THEN BuildAndStart(i, hs, signalRUrlHttp, calls[i].tried)
                   ELSE CreateConnection(i, hs, signalRUrlHttp,
                                         calls[i].tried)
                /\ last' = [op |-> "startFallback"]
           ELSE /\ hubs' = hs
                /\ calls' = [calls EXCEPT ![i] = IdleCall]
                /\ last' = [op |-> "startDone", outcome |-> "rejected",
                            tried |-> calls[i].tried]
                /\ UNCHANGED connection
    /\ UNCHANGED << build, serviceConnected, handlersSet, listenersTimer,
                    isConnected >>
    /\ UNCHANGED channelFrame

\* stop() up to its await: what it does to the service
StopBegins(i) ==
    /\ FirstIdle(i)
    /\ IF connection # NoConnection
       THEN /\ hubs' = [hubs EXCEPT ![connection] = HubStopping(@)]
            /\ calls' = [calls EXCEPT ![i] =
                            [op |-> "stop", pc |-> "stopping",
                             conn |-> connection, url |-> "",
                             tried |-> << >>]]
       ELSE UNCHANGED << hubs, calls >>
    /\ UNCHANGED << build, connection, serviceConnected, handlersSet,
                    listenersTimer, isConnected >>

StopCall(i) ==
    /\ StopBegins(i)
    /\ last' = [op |-> "stop", held |-> connection]
    /\ UNCHANGED channelFrame

\* The cleanup of the provider's effect, run when the user changes and when
\* the provider unmounts: signalRService.stop(), not awaited
Teardown(i) ==
    /\ ~torn
    /\ StopBegins(i)
    /\ torn' = TRUE
    /\ last' = [op |-> "teardown", held |-> connection]
    /\ UNCHANGED << activeChat, activeChatRef, messages, unreadCounts,
                    newMessageCallback, now, sends, loads,
                    chats, onlineUsers, typingUsers, composerVars, creates >>

\* stop() after connection.stop() resolved
StopResolved(i) ==
    /\ calls[i].op = "stop" /\ calls[i].pc = "stopping"
    /\ ~StartAwaited(calls[i].conn)
    /\ LET c == calls[i].conn
       IN  /\ hubs' = [hubs EXCEPT ![c] = HubClosed(@)]
           /\ isConnected' = IF CloseFires(hubs[c]) THEN Notified(FALSE)
                             ELSE isConnected
    /\ connection' = NoConnection
    /\ serviceConnected' = FALSE
    /\ calls' = [calls EXCEPT ![i] = IdleCall]
    /\ last' = [op |-> "stopDone"]
    /\ UNCHANGED << build, handlersSet, listenersTimer >>
    /\ UNCHANGED channelFrame

\* The transport of a connected hub is lost: onreconnecting
ConnectionLost(c) ==
    /\ hubs[c].state = "Connected"
    /\ hubs' = [hubs EXCEPT ![c] =
                    [@ EXCEPT !.state = "Reconnecting", !.delays = << >>,
                              !.user = FALSE, !.rooms = {}]]
    /\ serviceConnected' = FALSE
    /\ isConnected' = Notified(FALSE)
    /\ last' = [op |-> "reconnecting", conn |-> c]
    /\ UNCHANGED << build, connection, calls, handlersSet, listenersTimer >>
    /\ UNCHANGED channelFrame

\* The policy grants a retry, which is made after the delay; onreconnected
\* when it succeeds
Retry(c, ok) ==
    /\ hubs[c].state = "Reconnecting"
    /\ LET previousRetryCount == Len(hubs[c].delays)
           delay == NextRetryDelayInMilliseconds(build, previousRetryCount)
       IN  /\ delay # NoRetry
           /\ hubs' = [hubs EXCEPT ![c] =
                        [@ EXCEPT !.delays = Append(@, delay),
                                  !.state = IF ok THEN "Connected" ELSE @]]
           /\ last' = [op |-> "retry", conn |-> c,
                       previousRetryCount |-> previousRetryCount,
                       delay |-> delay, ok |-> ok]
    /\ serviceConnected' = IF ok THEN TRUE ELSE serviceConnected
    /\ isConnected' = IF ok THEN Notified(TRUE) ELSE isConnected
    /\ UNCHANGED << build, connection, calls, handlersSet, listenersTimer >>
    /\ UNCHANGED channelFrame

\* The policy grants no further retry: the hub closes, onclose
RetriesExhausted(c) ==
    /\ hubs[c].state = "Reconnecting"
    /\ NextRetryDelayInMilliseconds(build, Len(hubs[c].delays)) = NoRetry
    /\ hubs' = [hubs EXCEPT ![c] = HubClosed(@)]
    /\ serviceConnected' = FALSE
    /\ isConnected' = Notified(FALSE)
    /\ last' = [op |-> "closed", conn |-> c]
    /\ UNCHANGED << build, connection, calls, handlersSet, listenersTimer >>
    /\ UNCHANGED channelFrame

OutboundMethods == {"JoinUser", "JoinChat", "LeaveChat", "SendMessageToChat",
                    "SendTyping", "MarkMessagesAsRead"}

\* Mutant: the outbound methods invoke whatever the connection state
OutboundUnguarded(method) ==
    /\ last' = [op |-> "outbound", method |-> method,
                able |-> CanInvoke,
                invoked |-> connection # NoConnection,
                error |-> connection # NoConnection
                          /\ hubs[connection].state # "Connected"]
    /\ UNCHANGED << channelVars, isConnected >>
    /\ UNCHANGED channelFrame

\* joinUser, joinChat, leaveChat, sendMessageToChat, sendTyping and
\* markMessagesAsRead; an invocation on a hub that is not connected rejects
Outbound(method) ==
    /\ last' = [op |-> "outbound", method |-> method,
                able |-> CanInvoke,
                invoked |-> CanInvoke,
                error |-> CanInvoke /\ hubs[connection].state # "Connected"]
    /\ UNCHANGED << channelVars, isConnected >>
    /\ UNCHANGED channelFrame

\* How often the callback of one server event runs: every connected hub
\* receives the event and runs each handler registered for it
RECURSIVE DeliveriesFrom(_)
DeliveriesFrom(c) ==
    IF c > MaxConnections THEN 0
    ELSE (IF hubs[c].state = "Connected" THEN hubs[c].handlers ELSE 0)
         + DeliveriesFrom(c + 1)

Deliveries == DeliveriesFrom(1)

LiveConnections ==
    { c \in Connections :
        hubs[c].state \in {"Connecting", "Connected", "Reconnecting"} }

\* The server sends UserOffline: this.onUserOffline?.() and USER_OFFLINE
ServerEvent(userId) ==
    /\ Deliveries > 0
    /\ onlineUsers' = IF handlersSet THEN UserOffline(onlineUsers, userId)
                      ELSE onlineUsers
    /\ last' = [op |-> "serverEvent", userId |-> userId,
                deliveries |-> IF handlersSet THEN Deliveries ELSE 0]
    /\ UNCHANGED << activeChat, activeChatRef, messages, unreadCounts,
                    newMessageCallback, now, sends, loads,
                    chats, typingUsers, isConnected >>
    /\ UNCHANGED clientVars

\* The server sends UserTyping: the hub's handler takes userId, username and
\* isTyping and passes these three on, so the provider's handler is called
\* without a chatId
ServerUserTyping(userId, username, isTyping) ==
    /\ Deliveries > 0
    /\ handlersSet
    /\ OnUserTyping(userId, username, isTyping, NoChat)

\* Build 2: the timer of the constructor's setupEventListeners fires and
\* registers the event handlers on the connection once more
SetupEventListeners ==
    /\ listenersTimer
    /\ listenersTimer' = FALSE
    /\ hubs' = IF connection # NoConnection
               THEN [hubs EXCEPT ![connection] =
                        [@ EXCEPT !.handlers = @ + 1]]
               ELSE hubs
    /\ last' = [op |-> "setupEventListeners"]
    /\ UNCHANGED << build, connection, serviceConnected, calls, handlersSet,
                    isConnected >>
    /\ UNCHANGED channelFrame

----------------------------------------------------------------------------
(* ChatWindow: the typing indicator of the composer *)

\* The provider's sendTyping: signalRService.sendTyping, not awaited
SentTyping(chatId, typing) ==
    << [chatId |-> chatId, isTyping |-> typing, invoked |-> CanInvoke] >>

\* handleInputChange with a chat selected; nonBlank is e.target.value.trim().
\* The timeout callback closes over the isTyping of the render the handler
\* belongs to
HandleInputChange(nonBlank) ==
    /\ activeChat # NoChat
    /\ LET starts == ~isTypingState /\ nonBlank
       IN  /\ isTypingState' = (isTypingState \/ starts)
           /\ last' = [op |-> "inputChange",
                       sendTyping |-> IF starts
                                      THEN SentTyping(activeChat, TRUE)
                                      ELSE << >>,
                       cleared |-> typingTimeout.armed]
    /\ typingTimeout' = [armed |-> TRUE, isTyping |-> isTypingState,
                         chatId |-> activeChat]
    /\ UNCHANGED << activeChat, activeChatRef, messages, unreadCounts,
                    newMessageCallback, now, sends, loads >>
    /\ UNCHANGED << listAndPresence, channelVars, torn, creates >>

\* The callback of the one-second timeout
TypingTimeoutFires ==
    /\ typingTimeout.armed
    /\ typingTimeout' = [typingTimeout EXCEPT !.armed = FALSE]
    /\ isTypingState' = IF typingTimeout.isTyping THEN FALSE
                        ELSE isTypingState
    /\ last' = [op |-> "typingTimeout",
                sendTyping |-> IF typingTimeout.isTyping
                               THEN SentTyping(typingTimeout.chatId, FALSE)
                               ELSE << >>]
    /\ UNCHANGED << activeChat, activeChatRef, messages, unreadCounts,
                    newMessageCallback, now, sends, loads >>
    /\ UNCHANGED << listAndPresence, channelVars, torn, creates >>

\* ChatWindow getChatDisplayNameLocal for the header of a chat of the list
GetChatDisplayNameLocal(k) ==
    /\ k \in 1..Len(chats)
    /\ last' = [op |-> "getChatDisplayName", chat |-> chats[k],
                name |-> GetChatDisplayName(chats[k], Self)]
    /\ UNCHANGED << activeChat, activeChatRef, messages, unreadCounts,
                    newMessageCallback, now, sends, loads >>
    /\ UNCHANGED << listAndPresence, clientVars >>

----------------------------------------------------------------------------
(* ChatProvider: createChat *)

\* ADD_CHAT
AddChat(list, chat) == << chat >> \o list

\* participantIds.find(id => id !== user.id), 0 for undefined
OtherUserId(participantIds) ==
    LET k == FindOther([j \in 1..Len(participantIds) |->
                            [userId |-> participantIds[j]]], Self)
    IN  IF k = 0 THEN 0 ELSE participantIds[k]

\* createChat up to its request: two ids go to the direct-chat endpoint.
\* state.chats is the list of the render the function belongs to
CreateChat(participantIds) ==
    /\ creates.pc = "idle"
    /\ LET direct == Len(participantIds) = 2
           thrown == direct /\ OtherUserId(participantIds) = 0
           endpoint == IF direct THEN "/chat/direct" ELSE "/chat"
           body == IF direct THEN << Self, OtherUserId(participantIds) >>
                   ELSE participantIds
       IN  /\ creates' = IF thrown THEN creates
                         ELSE [pc |-> "requested", endpoint |-> endpoint,
                               body |-> body,
                               listed |-> { chats[k].id : k \in 1..Len(chats) },
                               chat |-> NoChat]
           /\ last' = [op |-> "createChat", participantIds |-> participantIds,
                       endpoint |-> IF thrown THEN "" ELSE endpoint,
                       body |-> IF thrown THEN << >> ELSE body,
                       thrown |-> thrown]
    /\ UNCHANGED << activeChat, activeChatRef, messages, unreadCounts,
                    newMessageCallback, now, sends, loads >>
    /\ UNCHANGED << listAndPresence, channelVars, composerVars, torn >>

\* createChat after joinChat: SET_ACTIVE_CHAT and loadMessages
OpenCreated(chat) ==
    /\ loads[chat.id] < MaxLoads
    /\ activeChat' = chat.id
    /\ loads' = [loads EXCEPT ![chat.id] = @ + 1]
    /\ creates' = IdleCreate

\* createChat after the request resolved: the chat is normalised and added
\* unless listed, then joinChat is awaited, which invokes only when connected
CreateChatResolved(rawChat) ==
    /\ creates.pc = "requested"
    /\ LET normalizedChat == NormalizeChat(rawChat, DateNow)
       IN  /\ chats' = IF normalizedChat.id \in creates.listed THEN chats
                       ELSE AddChat(chats, normalizedChat)
           /\ IF CanInvoke
              THEN /\ creates' = [creates EXCEPT !.pc = "joining",
                                                 !.chat = normalizedChat]
                   /\ UNCHANGED << activeChat, loads >>
              ELSE OpenCreated(normalizedChat)
           /\ last' = [op |-> "createChatResolved", chat |-> normalizedChat,
                       endpoint |-> creates.endpoint,
                       opened |-> ~CanInvoke, thrown |-> FALSE]
    /\ UNCHANGED << activeChatRef, messages, unreadCounts,
                    newMessageCallback, now, sends,
                    onlineUsers, typingUsers, isConnected >>
    /\ UNCHANGED << channelVars, composerVars, torn >>

\* createChat after the request rejected
CreateChatRejected ==
    /\ creates.pc = "requested"
    /\ creates' = IdleCreate
    /\ last' = [op |-> "createChatRejected", thrown |-> TRUE]
    /\ UNCHANGED << activeChat, activeChatRef, messages, unreadCounts,
                    newMessageCallback, now, sends, loads >>
    /\ UNCHANGED << listAndPresence, channelVars, composerVars, torn >>

\* createChat after the JoinChat invocation settled
CreateChatJoined(ok) ==
    /\ creates.pc = "joining"
    /\ IF ok THEN OpenCreated(creates.chat)
       ELSE /\ creates' = IdleCreate
            /\ UNCHANGED << activeChat, loads >>
    /\ hubs' = IF ok THEN JoinChat(hubs, creates.chat.id) ELSE hubs
    /\ last' = [op |-> "createChatJoined", chat |-> creates.chat,
                endpoint |-> creates.endpoint,
                opened |-> ok, thrown |-> ~ok]
    /\ UNCHANGED << activeChatRef, messages, unreadCounts,
                    newMessageCallback, now, sends >>
    /\ UNCHANGED << listAndPresence, composerVars, torn >>
    /\ UNCHANGED << build, connection, serviceConnected, calls, handlersSet,
                    listenersTimer >>

\* The names a presence or typing event may carry
EventNames == {"bob", "eve"}

Next ==
    \/ Tick
    \/ SyncActiveChatRef
    \/ \E callback \in BOOLEAN : SetOnNewMessage(callback)
    \/ \E p \in RealtimePayloads : ReceiveMessage(p)
    \/ \E chatId \in Chats, content \in Contents : SendMessage(chatId, content)
    \/ \E i \in 1..MaxSends : \E s \in SavedMessages(i) : SendResolved(i, s)
    \/ \E i \in 1..MaxSends : SendRejected(i)
    \/ \E chat \in Chats \cup {NoChat} : SetActiveChat(chat)
    \/ \E chatId \in Chats : \E page \in FetchedPages(chatId) :
            LoadMessagesResolved(chatId, page)
    \/ \E chatId \in Chats : LoadMessagesRejected(chatId)
    \/ \E rawChats \in RawChatLists : LoadChatsResolved(rawChats)
    \/ LoadChatsRejected
    \/ \E chatId \in Chats : DeleteChatResolved(chatId)
    \/ \E chatId \in Chats : DeleteChatRejected(chatId)
    \/ \E userId \in Users, username \in EventNames :
            OnUserOnline(userId, username)
    \/ \E userId \in Users : OnUserOffline(userId)
    \/ \E userId \in Users, username \in EventNames, isTyping \in BOOLEAN,
          chatId \in Chats \cup {NoChat} :
            OnUserTyping(userId, username, isTyping, chatId)
    \/ \E connected \in BOOLEAN : OnConnectionStateChanged(connected)
    \/ \E i \in 1..MaxCalls : StartCall(i)
    \/ \E i \in 1..MaxCalls : CloseResolved(i)
    \/ \E i \in 1..MaxCalls : StartResolved(i)
    \/ \E i \in 1..MaxCalls : StartRejected(i)
    \/ \E i \in 1..MaxCalls : StopCall(i)
    \/ \E i \in 1..MaxCalls : Teardown(i)
    \/ \E i \in 1..MaxCalls : StopResolved(i)
    \/ \E c \in Connections : ConnectionLost(c)
    \/ \E c \in Connections, ok \in BOOLEAN : Retry(c, ok)
    \/ \E c \in Connections : RetriesExhausted(c)
    \/ \E method \in OutboundMethods : Outbound(method)
    \/ \E userId \in Users : ServerEvent(userId)
    \/ \E userId \in Users, username \in EventNames, isTyping \in BOOLEAN :
            ServerUserTyping(userId, username, isTyping)
    \/ SetupEventListeners
    \/ \E nonBlank \in BOOLEAN : HandleInputChange(nonBlank)
    \/ TypingTimeoutFires
    \/ \E k \in 1..2 : GetChatDisplayNameLocal(k)
    \/ \E participantIds \in { << Self, 2 >>, << 2, Self >>, << Self >> } :
            CreateChat(participantIds)
    \/ \E rawChat \in RawChats : CreateChatResolved(rawChat)
    \/ CreateChatRejected
    \/ \E ok \in BOOLEAN : CreateChatJoined(ok)

\* The whole store, the channel client and the composer
Spec == Init /\ [][Next]_vars

----------------------------------------------------------------------------
(* The store with chat 1 selected: setActiveChat(1) was called, the effect  *)
(* has run and the loadMessages it started has ended (rejected)             *)

InitActive ==
    /\ activeChat = 1
    /\ activeChatRef = 1
    /\ messages = [c \in Chats |-> << >>]
    /\ unreadCounts = [c \in Chats |-> 0]
    /\ newMessageCallback = FALSE
    /\ now = 0
    /\ sends = [i \in 1..MaxSends |-> IdleSend]
    /\ loads = [c \in Chats |-> 0]
    /\ last = [op |-> "loadMessagesRejected", chat |-> 1]
    /\ chats = << >>
    /\ onlineUsers = << >>
    /\ typingUsers = [c \in Chats |-> << >>]
    /\ isConnected = FALSE
    /\ ServiceConstructed /\ build = 2
    /\ torn = FALSE
    /\ creates = IdleCreate
    /\ isTypingState = FALSE
    /\ typingTimeout = NoTimeout

\* Realtime messages for chat 1 with a numeric id; the second server id
\* comes with one content
AddPayloads ==
    { p \in RealtimePayloads : /\ p.chatId = 1
                               /\ p.senderUsername = ""
                               /\ ~p.idIsString
                               /\ p.id = 8 => p.content = "a" }

NextAdd ==
    \E p \in AddPayloads : ReceiveMessage(p)

\* The reducer's ADD_MESSAGE under realtime deliveries
SpecAdd == InitActive /\ [][NextAdd]_vars

\* Realtime messages for chat 1 from one sender, of every id shape
ReplayPayloads ==
    { p \in RealtimePayloads : p.chatId = 1 /\ p.senderId = 2
                               /\ p.senderUsername = "" /\ p.id # 8 }

NextReplay ==
    \/ Tick
    \/ \E p \in ReplayPayloads : ReceiveMessage(p)

\* Replayed realtime deliveries as time passes
SpecReplay == InitActive /\ [][NextReplay]_vars

\* The server's echoes of the local user's messages in chat 1
EchoPayloads ==
    { p \in RealtimePayloads : p.chatId = 1 /\ p.senderId = Self
                               /\ ~p.idIsString /\ p.id = 7
                               /\ p.timestamp = Instant(0) }

SendPages == { page \in FetchedPages(1) :
                \A k \in 1..Len(page) : page[k].senderId # Self
                                        /\ page[k].content = "a"
                                        /\ page[k].id = 8 }

NextSend ==
    \/ Tick
    \/ \E content \in Contents : SendMessage(1, content)
    \/ \E i \in 1..MaxSends : \E s \in SavedMessages(i) : SendResolved(i, s)
    \/ \E i \in 1..MaxSends : SendRejected(i)
    \/ \E p \in EchoPayloads : ReceiveMessage(p)
    \/ \E page \in SendPages : LoadMessagesResolved(1, page)
    \/ LoadMessagesRejected(1)

\* Chat 1 was just selected: the loadMessages it started is still in flight
InitLoading ==
    /\ activeChat = 1
    /\ activeChatRef = 1
    /\ messages = [c \in Chats |-> << >>]
    /\ unreadCounts = [c \in Chats |-> 0]
    /\ newMessageCallback = FALSE
    /\ now = 0
    /\ sends = [i \in 1..MaxSends |-> IdleSend]
    /\ loads = [c \in Chats |-> IF c = 1 THEN 1 ELSE 0]
    /\ last = [op |-> "setActiveChat", chat |-> 1, unreadBefore |-> 0,
               joinChat |-> << 1 >>]
    /\ chats = << >>
    /\ onlineUsers = << >>
    /\ typingUsers = [c \in Chats |-> << >>]
    /\ isConnected = FALSE
    /\ ServiceConstructed /\ build = 2
    /\ torn = FALSE
    /\ creates = IdleCreate
    /\ isTypingState = FALSE
    /\ typingTimeout = NoTimeout

\* The optimistic send and what may happen while its request is in flight
SpecSend == InitLoading /\ [][NextSend]_vars

\* Realtime messages that differ in chat, sender and sender name only
UnreadPayloads ==
    { p \in RealtimePayloads : ~p.idIsString /\ p.id = 7 /\ p.content = "a"
                               /\ p.timestamp = Instant(0) }

NextUnread ==
    \/ SyncActiveChatRef
    \/ \E callback \in BOOLEAN : SetOnNewMessage(callback)
    \/ \E chat \in Chats \cup {NoChat} : SetActiveChat(chat)
    \/ \E p \in UnreadPayloads : ReceiveMessage(p)
    \/ \E chatId \in Chats : LoadMessagesResolved(chatId, << >>)
    \/ \E chatId \in Chats : LoadMessagesRejected(chatId)

\* The active selection, the unread counters and the notifications
SpecUnread == Init /\ [][NextUnread]_vars

\* A fetched message of chat 1 as the gateway returns it: the k-th of a
\* page has id 6 + k; it comes with its sender resolved or without sender
LoadMessage(k, u, resolved) ==
    LET raw == [id |-> 6 + k, chatId |-> 1, senderId |-> u, content |-> "a",
                timestamp |-> Instant(0), status |-> "delivered"]
    IN  IF resolved THEN WithSender(raw, UserRecord(u)) ELSE raw

\* The pages fetched: up to two messages; the local user's come unresolved
LoadPages ==
    UNION { { page \in [1..n -> { LoadMessage(k, u, r) :
                                    k \in 1..2, u \in Users, r \in BOOLEAN }] :
                \A k \in 1..n :
                    /\ page[k].id = 6 + k
                    /\ HasSender(page[k]) => page[k].senderId # Self } :
            n \in 0..2 }

LoadPayloads ==
    { p \in RealtimePayloads :
        /\ p.chatId = 1 /\ p.senderId = 2 /\ p.senderUsername = "bob"
        /\ p.id = 8 /\ ~p.idIsString
        /\ p.content = "b" /\ p.timestamp = Instant(0) }

NextLoad ==
    \/ SetActiveChat(1)
    \/ SendMessage(1, "b")
    \/ \E p \in LoadPayloads : ReceiveMessage(p)
    \/ \E page \in LoadPages : LoadMessagesResolved(1, page)
    \/ LoadMessagesRejected(1)

\* loadMessages of the selected chat with sends and realtime messages
\* handled while its fetch is in flight
SpecLoad == InitLoading /\ [][NextLoad]_vars

\* One realtime message of user 2 for chat 1
ChatsPayloads ==
    { p \in RealtimePayloads :
        /\ p.chatId = 1 /\ p.senderId = 2 /\ p.senderUsername = "bob"
        /\ p.id = 7 /\ ~p.idIsString
        /\ p.content = "a" /\ p.timestamp = Instant(0) }

NextChats ==
    \/ \E rawChats \in RawChatLists : LoadChatsResolved(rawChats)
    \/ LoadChatsRejected
    \/ \E chatId \in Chats : DeleteChatResolved(chatId)
    \/ \E chatId \in Chats : DeleteChatRejected(chatId)
    \/ \E chat \in Chats : SetActiveChat(chat)
    \/ \E chatId \in Chats : LoadMessagesRejected(chatId)
    \/ \E p \in ChatsPayloads : ReceiveMessage(p)

\* The chat list under loadChats and deleteChat
SpecChats == Init /\ [][NextChats]_vars

NextPresence ==
    \/ \E userId \in Users, username \in EventNames :
            OnUserOnline(userId, username)
    \/ \E userId \in Users : OnUserOffline(userId)
    \/ \E userId \in Users, username \in EventNames, isTyping \in BOOLEAN,
          chatId \in Chats \cup {NoChat} :
            OnUserTyping(userId, username, isTyping, chatId)
    \/ \E connected \in BOOLEAN : OnConnectionStateChanged(connected)
    \/ \E p \in ChatsPayloads : ReceiveMessage(p)

\* The presence, typing and connection events
SpecPresence == Init /\ [][NextPresence]_vars

\* Realtime messages of user 2 for chat 1
OrderPayloads ==
    { p \in RealtimePayloads :
        /\ p.chatId = 1 /\ p.senderId = 2 /\ p.senderUsername = "bob"
        /\ ~p.idIsString /\ p.content = "a" /\ p.timestamp = Instant(0) }

NextOrder ==
    \/ Tick
    \/ SendMessage(1, "b")
    \/ \E i \in 1..MaxSends : \E s \in SavedMessages(i) : SendResolved(i, s)
    \/ \E i \in 1..MaxSends : SendRejected(i)
    \/ \E p \in OrderPayloads : ReceiveMessage(p)

\* Messages sent and received in the selected chat, none loaded
SpecOrder == InitActive /\ [][NextOrder]_vars

\* The composer of the selected chat, with the channel connecting
NextComposer ==
    \/ \E nonBlank \in BOOLEAN : HandleInputChange(nonBlank)
    \/ TypingTimeoutFires
    \/ \E chat \in Chats : SetActiveChat(chat)
    \/ \E chatId \in Chats : LoadMessagesRejected(chatId)
    \/ StartCall(1)
    \/ StartResolved(1)
    \/ \E c \in Connections : ConnectionLost(c)

SpecComposer == Init /\ [][NextComposer]_vars

\* Raw chats with the participants the server lists, in either order
RawParticipantLists ==
    LET me == [userId |-> Self, username |-> "me"]
        others == { [userId |-> 2, username |-> n] : n \in {"", "bob"} }
    IN  { << >>, << me >> }
        \cup { << me, o >> : o \in others } \cup { << o, me >> : o \in others }

DisplayRawChats ==
    { [id |-> id, name |-> name, type |-> type, createdAt |-> "t0",
       participants |-> participants] :
        id \in Chats, name \in {"room"}, type \in {"", "direct", "group"},
        participants \in RawParticipantLists }

NextDisplay ==
    \/ \E a \in DisplayRawChats : LoadChatsResolved(<< a >>)
    \/ \E a \in RawChats : LoadChatsResolved(<< a >>)
    \/ \E k \in 1..2 : GetChatDisplayNameLocal(k)
    \/ \E chatId \in Chats : DeleteChatResolved(chatId)

\* The chat list and the names displayed for its chats
SpecDisplay == Init /\ [][NextDisplay]_vars

\* What the direct-chat endpoint may answer: a direct chat of the two users,
\* its type and its participants given or left out
DirectResponses ==
    { r \in DisplayRawChats :
        /\ r.type # "group" /\ Len(r.participants) = 2
        /\ \A k \in 1..2 : r.participants[k].username # "" }
    \cup { r \in RawChats : r.type # "group" }

GroupResponses == { r \in DisplayRawChats \cup RawChats : r.type = "group" }

CreateResponses ==
    IF creates.endpoint = "/chat/direct" THEN DirectResponses
    ELSE GroupResponses

ParticipantIdLists == { << Self, 2 >>, << 2, Self >>, << Self, Self >>,
                        << Self >> }

NextCreate ==
    \/ \E participantIds \in ParticipantIdLists : CreateChat(participantIds)
    \/ \E rawChat \in CreateResponses : CreateChatResolved(rawChat)
    \/ CreateChatRejected
    \/ \E ok \in BOOLEAN : CreateChatJoined(ok)
    \/ \E chatId \in Chats : LoadMessagesRejected(chatId)
    \/ StartCall(1)
    \/ StartResolved(1)

\* createChat with the channel connecting
SpecCreate == Init /\ [][NextCreate]_vars

----------------------------------------------------------------------------
(* The realtime channel client and the session *)

\* start() and stop() in any interleaving, with the events of the server
NextConnect ==
    \/ \E i \in 1..MaxCalls : StartCall(i)
    \/ \E i \in 1..MaxCalls : CloseResolved(i)
    \/ \E i \in 1..MaxCalls : StartResolved(i)
    \/ \E i \in 1..MaxCalls : StartRejected(i)
    \/ \E i \in 1..MaxCalls : StopCall(i)
    \/ \E i \in 1..MaxCalls : StopResolved(i)
    \/ ServerEvent(2)
    \/ SetupEventListeners

SpecConnect == Init /\ [][NextConnect]_vars

\* One start() at a time, the loss of the connection and the outbound calls
NextReconnect ==
    \/ StartCall(1)
    \/ CloseResolved(1)
    \/ StartResolved(1)
    \/ StartRejected(1)
    \/ \E c \in Connections : ConnectionLost(c)
    \/ \E c \in Connections, ok \in BOOLEAN : Retry(c, ok)
    \/ \E c \in Connections : RetriesExhausted(c)
    \/ \E method \in OutboundMethods : Outbound(method)

SpecReconnect == Init /\ [][NextReconnect]_vars

\* The session is torn down while a loadMessages and the channel's own calls
\* may be in flight; no command is issued and no session begun afterwards
NextTeardown ==
    \/ ~torn /\ \E i \in 1..MaxCalls : StartCall(i)
    \/ \E i \in 1..MaxCalls : CloseResolved(i)
    \/ \E i \in 1..MaxCalls : StartResolved(i)
    \/ \E i \in 1..MaxCalls : StartRejected(i)
    \/ \E i \in 1..MaxCalls : Teardown(i)
    \/ \E i \in 1..MaxCalls : StopResolved(i)
    \/ ~torn /\ SetActiveChat(1)
    \/ \E page \in SendPages : LoadMessagesResolved(1, page)
    \/ LoadMessagesRejected(1)

SpecTeardown == Init /\ [][NextTeardown]_vars

\* The selection of chats while the channel connects, loses its connection
\* and reconnects
NextRooms ==
    \/ StartCall(1)
    \/ CloseResolved(1)
    \/ StartResolved(1)
    \/ StartRejected(1)
    \/ \E c \in Connections : ConnectionLost(c)
    \/ \E c \in Connections, ok \in BOOLEAN : Retry(c, ok)
    \/ \E c \in Connections : RetriesExhausted(c)
    \/ \E chat \in Chats \cup {NoChat} : SetActiveChat(chat)
    \/ \E chatId \in Chats : LoadMessagesRejected(chatId)

SpecRooms == Init /\ [][NextRooms]_vars

\* The typing events of the server while the channel connects and loses its
\* connection
NextTyping ==
    \/ StartCall(1)
    \/ CloseResolved(1)
    \/ StartResolved(1)
    \/ StartRejected(1)
    \/ \E c \in Connections : ConnectionLost(c)
    \/ \E c \in Connections : Retry(c, TRUE)
    \/ \E userId \in Users, username \in EventNames, isTyping \in BOOLEAN :
            ServerUserTyping(userId, username, isTyping)

SpecTyping == Init /\ [][NextTyping]_vars

\* createChat for the direct partner while messages of that partner arrive;
\* the channel is not connected
NextOpen ==
    \/ CreateChat(<< Self, 2 >>)
    \/ \E rawChat \in DirectResponses : CreateChatResolved(rawChat)
    \/ CreateChatRejected
    \/ \E chat \in Chats \cup {NoChat} : SetActiveChat(chat)
    \/ SyncActiveChatRef
    \/ \E p \in ChatsPayloads : ReceiveMessage(p)
    \/ \E chatId \in Chats : LoadMessagesRejected(chatId)

SpecOpen == Init /\ [][NextOpen]_vars

\* createChat for the direct partner while loadChats refreshes the list
NextList ==
    \/ CreateChat(<< Self, 2 >>)
    \/ \E rawChat \in DirectResponses : CreateChatResolved(rawChat)
    \/ CreateChatRejected
    \/ \E rawChats \in RawChatLists : LoadChatsResolved(rawChats)
    \/ \E chatId \in Chats : LoadMessagesRejected(chatId)

SpecList == Init /\ [][NextList]_vars

\* The provider mounts and initializeChat runs; the user then changes while
\* the provider stays mounted: the cleanup of the effect is followed at once
\* by the initializeChat of its next run. The server is reachable: a start()
\* is rejected only when a stop() interrupts it
NextReinit ==
    \/ last.op \in {"init", "teardown"} /\ \E i \in 1..MaxCalls : StartCall(i)
    \/ last.op # "teardown" /\ \E i \in 1..MaxCalls : CloseResolved(i)
    \/ last.op # "teardown" /\ \E i \in 1..MaxCalls : StartResolved(i)
    \/ last.op # "teardown" /\ \E i \in 1..MaxCalls :
            /\ calls[i].pc = "starting"
            /\ hubs[calls[i].conn].state = "Disconnecting"
            /\ StartRejected(i)
    \/ last.op # "init" /\ \E i \in 1..MaxCalls : Teardown(i)
    \/ last.op # "teardown" /\ \E i \in 1..MaxCalls : StopResolved(i)
    \/ last.op # "teardown" /\ \E c \in Connections : ConnectionLost(c)
    \/ last.op # "teardown" /\ \E c \in Connections : Retry(c, TRUE)

SpecReinit == Init /\ [][NextReinit]_vars

----------------------------------------------------------------------------
(* Properties of the reducer's ADD_MESSAGE                                  *)

SameSenderAndContent(msg, p) ==
    msg.senderId = p.senderId /\ msg.content = p.content

\* The step is the handling of the realtime payload recorded in last'
Received == last'.op = "ReceiveMessage" /\ ReceiveMessage(last'.payload)

\* C1: handling the 'message received' event for the same payload a second
\* time (nothing but time passing in between) does not change any timeline,
\* so the payload has exactly one entry.
C1_ReplayIdempotent ==
    [][(last.op = "ReceiveMessage" /\ ReceiveMessage(last.payload))
        => messages' = messages]_vars

\* C6: an incoming message whose positive numeric id is the id of a message
\* already in the chat's timeline is dropped and the timeline is unchanged,
\* whatever its content, sender or timestamp.
C6_IdMatchDrops ==
    [][LET p == last'.payload IN
        (/\ Received
         /\ p.id > 0
         /\ \E k \in 1..Len(messages[p.chatId]) :
                messages[p.chatId][k].id = p.id)
        => messages' = messages]_vars

\* C6 happens: a message was dropped although the entry with its id differs
\* from it in content, sender and timestamp.
C6_Witness ==
    /\ last.op = "ReceiveMessage"
    /\ last.payload.id > 0
    /\ Len(messages[1]) = 1
    /\ messages[1][1].id = last.payload.id
    /\ messages[1][1].content # last.payload.content
    /\ messages[1][1].senderId # last.payload.senderId
    /\ messages[1][1].timestamp # last.payload.timestamp

\* C7 as stated, in its weakest reading: same senderId and content less
\* than 500 ms from a timeline message means dropped; 501 ms apart (and no
\* such entry nearer) means both are kept.
C7_Original ==
    [][LET p == last'.payload IN
        Received =>
          LET old == messages[p.chatId] IN
          /\ (\E k \in 1..Len(old) :
                /\ SameSenderAndContent(old[k], p)
                /\ Abs(old[k].timestamp - p.timestamp) < 500)
             => messages' = messages
          /\ (/\ \E k \in 1..Len(old) :
                    /\ SameSenderAndContent(old[k], p)
                    /\ Abs(old[k].timestamp - p.timestamp) = 501
              /\ \A k \in 1..Len(old) :
                    SameSenderAndContent(old[k], p)
                        => Abs(old[k].timestamp - p.timestamp) >= 500)
             => Len(messages'[p.chatId]) = Len(old) + 1]_vars

\* C7 as amended: the window applies to a pair that does not consist of two
\* positive numeric ids and is strict: less than 500 ms apart means dropped;
\* with every same-sender same-content entry 500 ms or more away and no
\* positive id shared, the incoming message is appended.
C7_FuzzyWindow ==
    [][LET p == last'.payload IN
        Received =>
          LET old == messages[p.chatId] IN
          /\ (\E k \in 1..Len(old) :
                /\ ~(old[k].id > 0 /\ p.id > 0)
                /\ SameSenderAndContent(old[k], p)
                /\ Abs(old[k].timestamp - p.timestamp) < 500)
             => messages' = messages
          /\ (\A k \in 1..Len(old) :
                /\ SameSenderAndContent(old[k], p)
                        => Abs(old[k].timestamp - p.timestamp) >= 500
                /\ ~(old[k].id > 0 /\ old[k].id = p.id))
             => /\ Len(messages'[p.chatId]) = Len(old) + 1
                /\ \A k \in 1..Len(old) : messages'[p.chatId][k] = old[k]
                /\ LET new == messages'[p.chatId][Len(old) + 1] IN
                   /\ new.id = p.id
                   /\ SameSenderAndContent(new, p)
                   /\ new.timestamp = p.timestamp]_vars

\* C7 happens: two entries without a positive id, of the same sender and
\* content, exactly 500 ms apart, were both kept.
C7_Witness ==
    /\ last.op = "ReceiveMessage"
    /\ Len(messages[1]) = 2
    /\ messages[1][1].id = 0
    /\ messages[1][2].id = 0
    /\ messages[1][2].senderId = messages[1][1].senderId
    /\ messages[1][2].content = messages[1][1].content
    /\ Abs(messages[1][2].timestamp - messages[1][1].timestamp) = 500
    /\ last.payload.timestamp = messages[1][2].timestamp

----------------------------------------------------------------------------
(* Properties of the optimistic send                                        *)

\* p is the server's echo of a message whose optimistic entry was appended:
\* same chat, sender and content, timestamp within 400 ms of it
IsEchoOfSend(p) ==
    \E i \in 1..MaxSends :
        /\ sends[i].pc # "idle"
        /\ sends[i].pos > 0
        /\ p.chatId = sends[i].chatId
        /\ p.senderId = Self
        /\ p.content = sends[i].content
        /\ Abs(p.timestamp - sends[i].tempId) <= 400

\* C2: once sendMessage has appended its optimistic message, the realtime
\* echo of that message leaves the length of the chat's timeline unchanged,
\* before as well as after the send response is processed.
C2_EchoAbsorbed ==
    [][LET p == last'.payload IN
        (Received /\ IsEchoOfSend(p))
        => Len(messages'[p.chatId]) = Len(messages[p.chatId])]_vars

\* C3: right after a send whose optimistic entry was appended
\* completed with a server id other than the provisional id, the timeline
\* is as long as right after the optimistic append and the entry sits at
\* its position with the server's id, timestamp and status.
C3_OptimisticRewrite ==
    \A i \in 1..MaxSends :
        (/\ last.op = "sendMessageResolved"
         /\ last.slot = i
         /\ last.saved.id # sends[i].tempId
         /\ sends[i].pos > 0)
        => LET timeline == messages[sends[i].chatId] IN
           /\ Len(timeline) = sends[i].lenAfter
           /\ timeline[sends[i].pos].id = last.saved.id
           /\ timeline[sends[i].pos].timestamp = last.saved.timestamp
           /\ timeline[sends[i].pos].status = last.saved.status

\* C4: every call of sendMessage appends exactly one new message (status
\* sent, the local user as sender, the given content) to the chat's timeline
\* before its request is issued.
C4_OptimisticAppend ==
    [][\A i \in 1..MaxSends :
        (/\ last'.op = "sendMessage"
         /\ last'.slot = i
         /\ sends[i].pc = "idle"
         /\ sends'[i].pc = "awaiting")
        => LET c == sends'[i].chatId IN
           /\ Len(messages'[c]) = Len(messages[c]) + 1
           /\ \A k \in 1..Len(messages[c]) : messages'[c][k] = messages[c][k]
           /\ LET new == messages'[c][Len(messages'[c])] IN
              /\ new.status = "sent"
              /\ new.senderId = Self
              /\ new.content = sends'[i].content]_vars

\* C5: when the request of a send fails, the provisional message stays at
\* its position with status failed and its other fields as they were, no
\* other message is modified, the error is re-raised and the call has
\* issued a single request.
C5_SendFailure ==
    [][\A i \in 1..MaxSends :
        (/\ last'.op = "sendMessageRejected"
         /\ last'.slot = i
         /\ SendRejected(i))
        => LET c == sends[i].chatId
               old == messages[c]
               new == messages'[c]
               pos == sends[i].pos
           IN  /\ Len(new) = Len(old)
               /\ \A k \in 1..Len(old) : k # pos => new[k] = old[k]
               /\ pos > 0 =>
                    /\ pos <= Len(new)
                    /\ new[pos] =
                        [TempMessage(c, sends[i].content, sends[i].tempId)
                            EXCEPT !.status = "failed"]
               /\ \A d \in Chats \ {c} : messages'[d] = messages[d]
               /\ last'.thrown
               /\ sends'[i].requests = 1]_vars

\* C12: a message marked failed in a chat's timeline remains in that
\* timeline with status failed under every later command and event (the
\* chat is not deleted).
C12_FailedStaysVisible ==
    [][\A c \in Chats : \A k \in 1..Len(messages[c]) :
        messages[c][k].status = "failed"
        => \E j \in 1..Len(messages'[c]) :
            /\ messages'[c][j].status = "failed"
            /\ messages'[c][j].senderId = messages[c][k].senderId
            /\ messages'[c][j].content = messages[c][k].content]_vars

----------------------------------------------------------------------------
(* Properties of the unread counters                                        *)

\* C8: a 'message received' event handled while its chat is the store's
\* active chat never increments that chat's unread counter.
C8_ActiveChatNotCounted ==
    [][LET p == last'.payload IN
        (Received /\ activeChat = p.chatId)
        => unreadCounts'[p.chatId] <= unreadCounts[p.chatId]]_vars

\* C9: a 'message received' event for a chat that is not the active chat,
\* from another user, increments that chat's counter by exactly one and
\* calls the registered notification callback with the chat, the sender's
\* display name and the content; an event from the local user changes no
\* counter.
C9_InactiveChatCounted ==
    [][LET p == last'.payload IN
        Received =>
          /\ (activeChat # p.chatId /\ p.senderId # Self)
             => /\ unreadCounts' = [unreadCounts EXCEPT ![p.chatId] = @ + 1]
                /\ newMessageCallback
                    => last'.notified =
                        << p.chatId, SenderName(p), p.content >>
          /\ p.senderId = Self => unreadCounts' = unreadCounts]_vars

\* C10: right after setActiveChat(c) the store has activeChat = c and
\* unread[c] = 0, and every other chat's counter is what it was.
C10_SetActiveClearsUnread ==
    [][\A c \in Chats :
        (/\ last'.op = "setActiveChat"
         /\ last'.chat = c
         /\ SetActiveChat(c))
        => /\ activeChat' = c
           /\ unreadCounts'[c] = 0
           /\ \A d \in Chats \ {c} : unreadCounts'[d] = unreadCounts[d]]_vars

\* C10 happens: chat 1 was selected while it had unread messages and the
\* other chat keeps its own.
C10_Witness ==
    /\ last.op = "setActiveChat"
    /\ last.chat = 1
    /\ last.unreadBefore > 0
    /\ activeChat = 1
    /\ unreadCounts[1] = 0
    /\ unreadCounts[2] > 0

----------------------------------------------------------------------------
(* Properties of loadMessages                                               *)

\* A timeline message is the fetched message with its sender resolved
IsEnriched(msg, fetched) ==
    /\ \A f \in DOMAIN fetched \ {"sender"} : msg[f] = fetched[f]
    /\ DOMAIN msg = DOMAIN fetched \cup {"sender"}
    /\ msg.sender.id = fetched.senderId
    /\ msg.sender.username # ""
    /\ HasSender(fetched) => msg.sender = fetched.sender

\* C11: after loadMessages(c) completes successfully, c's timeline is
\* exactly the fetched page with senders enriched, whatever it held before,
\* and the timelines of the other chats are unchanged.
C11_DestructiveReplace ==
    [][\A c \in Chats :
        (/\ last'.op = "loadMessagesResolved"
         /\ last'.chat = c
         /\ LoadMessagesResolved(c, last'.page))
        => /\ Len(messages'[c]) = Len(last'.page)
           /\ \A k \in 1..Len(last'.page) :
                IsEnriched(messages'[c][k], last'.page[k])
           /\ \A d \in Chats \ {c} : messages'[d] = messages[d]]_vars

\* C11 happens: the fetch completed after an optimistic send and a realtime
\* message were appended; the timeline is the one fetched message and
\* neither of them is in it.
C11_Witness ==
    /\ last.op = "loadMessagesResolved"
    /\ Len(last.before) = 2
    /\ \E k \in 1..2 : last.before[k].id = sends[1].tempId
    /\ \E k \in 1..2 : last.before[k].id = 8
    /\ sends[1].pc = "awaiting"
    /\ Len(messages[1]) = 1
    /\ messages[1][1].id = 7
    /\ ~HasSender(last.page[1])
    /\ messages[1][1].sender = UserRecord(2)

\* C16: during one loadMessages call at most one getUserById lookup is
\* issued for each distinct senderId among the fetched messages that lack a
\* resolved sender.
C16_OneLookupPerSender ==
    last.op = "loadMessagesResolved"
    => \A u \in Users :
        Cardinality({ k \in 1..Len(last.lookups) : last.lookups[k] = u }) <= 1

\* C17: when a lookup for a sender fails during loadMessages, every message
\* of that sender that lacks a resolved sender gets the placeholder sender,
\* the load completes and the timeline holds all fetched messages.
C17_LookupFailurePlaceholder ==
    last.op = "loadMessagesResolved"
    => LET page == last.page
           timeline == messages[last.chat]
       IN  /\ Len(timeline) = Len(page)
           /\ \A k \in 1..Len(page) :
                /\ \A f \in DOMAIN page[k] \ {"sender"} :
                        timeline[k][f] = page[k][f]
                /\ (~HasSender(page[k]) /\ ~last.found[k])
                   => \A j \in 1..Len(page) :
                        (page[j].senderId = page[k].senderId
                            /\ ~HasSender(page[j]))
                        => timeline[j].sender =
                            [id |-> page[j].senderId,
                             username |-> UserLabel(page[j].senderId),
                             createdAt |-> ""]

----------------------------------------------------------------------------
(* Properties of the chat list                                              *)

\* Everything of the store but the chat list
StoreButChats ==
    << activeChat, messages, unreadCounts, onlineUsers, typingUsers,
       isConnected >>

\* C13: when the remote delete request fails, the chat list, the active
\* selection, every timeline and every counter are unchanged and the error
\* is raised to the caller.
C13_DeleteFailure ==
    [][\A c \in Chats :
        (/\ last'.op = "deleteChatRejected"
         /\ last'.chat = c
         /\ DeleteChatRejected(c))
        => /\ chats' = chats
           /\ StoreButChats' = StoreButChats
           /\ last'.thrown]_vars

\* C13 happens: the delete of the selected chat, which is in the list and
\* has a message, failed.
C13_Witness ==
    /\ last.op = "deleteChatRejected"
    /\ last.thrown
    /\ activeChat = last.chat
    /\ \E k \in 1..Len(chats) : chats[k].id = last.chat
    /\ Len(chats) = 2
    /\ Len(messages[last.chat]) = 1

\* C14: after deleteChat(c) succeeded remotely, c is not in the chat list,
\* c's timeline is cleared, the active selection is cleared if and only if c
\* was the active chat, and the other chats are in the list in their
\* previous order.
C14_DeleteSuccess ==
    last.op = "deleteChatResolved"
    => LET c == last.chat IN
       /\ \A k \in 1..Len(chats) : chats[k].id # c
       /\ chats = SelectSeq(last.listBefore, LAMBDA chat : chat.id # c)
       /\ messages[c] = << >>
       /\ activeChat = IF last.activeBefore = c THEN NoChat
                       ELSE last.activeBefore

\* C15: on success loadChats replaces the whole chat list by the
\* normalized fetched list; on failure the chat list, the timelines, the
\* active chat and the counters are unchanged; in both cases nothing is
\* raised to the caller.
C15_LoadChatsFailSoft ==
    [][/\ (last'.op = "loadChatsResolved" /\ LoadChatsResolved(last'.raw))
          => LET raw == last'.raw IN
             /\ Len(chats') = Len(raw)
             /\ \A k \in 1..Len(raw) :
                    /\ chats'[k].id = raw[k].id
                    /\ chats'[k].name = raw[k].name
                    /\ chats'[k].createdAt = raw[k].createdAt
                    /\ chats'[k].type \in {"direct", "group"}
                    /\ raw[k].type # "" => chats'[k].type = raw[k].type
                    /\ Len(chats'[k].participants) =
                        IF "participants" \in DOMAIN raw[k]
                        THEN Len(raw[k].participants) ELSE 0
                    /\ \A j \in 1..Len(chats'[k].participants) :
                        /\ chats'[k].participants[j].chatId = raw[k].id
                        /\ chats'[k].participants[j].userId =
                            raw[k].participants[j].userId
                        /\ chats'[k].participants[j].username # ""
             /\ StoreButChats' = StoreButChats
             /\ ~last'.thrown
       /\ (last'.op = "loadChatsRejected" /\ LoadChatsRejected)
          => /\ chats' = chats
             /\ StoreButChats' = StoreButChats
             /\ ~last'.thrown]_vars

\* C15 happens: a refresh of a list of two chats failed with chat 1
\* selected and a message in its timeline; the list still holds the two
\* normalized chats.
C15_Witness ==
    /\ last.op = "loadChatsRejected"
    /\ Len(chats) = 2
    /\ chats[1].type = "direct"
    /\ chats[2].type = "group"
    /\ Len(chats[2].participants) = 2
    /\ activeChat = 1
    /\ Len(messages[1]) = 1
    /\ unreadCounts[1] > 0

----------------------------------------------------------------------------
(* Properties of presence, typing and the connection flag                   *)

\* Everything of the store but the given part
StoreButOnline ==
    << chats, activeChat, messages, unreadCounts, typingUsers, isConnected >>

StoreButConnection ==
    << chats, activeChat, messages, unreadCounts, typingUsers, onlineUsers >>

\* C18: the online-presence collection holds at most one entry per userId;
\* a UserOnline event for an already-online user leaves the state
\* unchanged, and a UserOffline event removes that user's entry and no
\* other.
C18_OnlinePresenceSet ==
    [][/\ \A i, j \in 1..Len(onlineUsers') :
            onlineUsers'[i].userId = onlineUsers'[j].userId => i = j
       /\ \A u \in Users :
            (/\ last'.op = "userOnline"
             /\ last'.userId = u
             /\ OnUserOnline(u, last'.username)
             /\ \E k \in 1..Len(onlineUsers) : onlineUsers[k].userId = u)
            => /\ onlineUsers' = onlineUsers
               /\ StoreButOnline' = StoreButOnline
       /\ \A u \in Users :
            (/\ last'.op = "userOffline"
             /\ last'.userId = u
             /\ OnUserOffline(u))
            => /\ \A k \in 1..Len(onlineUsers') : onlineUsers'[k].userId # u
               /\ onlineUsers' =
                    SelectSeq(onlineUsers, LAMBDA e : e.userId # u)
               /\ StoreButOnline' = StoreButOnline]_vars

\* C18 happens: with both users online, a second UserOnline event for the
\* first of them, under another name, changed nothing.
C18_Witness ==
    /\ last.op = "userOnline"
    /\ Len(onlineUsers) = 2
    /\ onlineUsers[1].userId = last.userId
    /\ onlineUsers[1].username # last.username
    /\ onlineUsers[2].userId # last.userId

\* C19: in a chat's typing set, a typing=true event for user u adds u and
\* keeps every entry already present, a repeated typing=true for u changes
\* nothing, and a typing=false for u removes u's entry only.
C19_TypingSet ==
    [][\A c \in Chats :
        (/\ last'.op = "userTyping"
         /\ last'.chatId = c
         /\ OnUserTyping(last'.userId, last'.username, last'.isTyping, c))
        => LET u == last'.userId
               old == typingUsers[c]
               new == typingUsers'[c]
               present == \E k \in 1..Len(old) : old[k].userId = u
           IN  IF last'.isTyping
               THEN /\ \A k \in 1..Len(old) :
                        \E j \in 1..Len(new) : new[j] = old[k]
                    /\ \E j \in 1..Len(new) : new[j].userId = u
                    /\ present => new = old
               ELSE new = SelectSeq(old, LAMBDA e : e.userId # u)]_vars

\* C20: a connection-state-changed event sets the connection status to the
\* reported value and leaves the chat list, the active chat, the
\* timelines, the typing sets, the unread counters and the online presence
\* unchanged.
C20_ConnectionFlagOnly ==
    [][\A b \in BOOLEAN :
        (/\ last'.op = "connectionStateChanged"
         /\ last'.connected = b
         /\ OnConnectionStateChanged(b))
        => /\ isConnected' = b
           /\ StoreButConnection' = StoreButConnection]_vars

\* C20 happens: a disconnect was reported while a user is online, a user
\* is typing in chat 1 and chat 1 has a message and an unread count.
C20_Witness ==
    /\ last.op = "connectionStateChanged"
    /\ ~last.connected
    /\ ~isConnected
    /\ Len(onlineUsers) = 1
    /\ Len(typingUsers[1]) = 1
    /\ Len(messages[1]) = 1
    /\ unreadCounts[1] = 1

----------------------------------------------------------------------------
(* The realtime channel client: connecting and reconnecting *)

\* C21: every start() tries the primary url first and the fallback url only
\* after the primary failed; when one of them succeeds the call resolves and
\* the client is connected; when both fail the call rejects and the client is
\* not connected. A start() that returns without trying any url is only
\* consistent with this when the client is connected; that covers a start()
\* made after an earlier start() failed
C21_ConnectProtocol ==
    [][ /\ (last'.op = "start" /\ last'.early) => serviceConnected'
        /\ (last'.op = "startDone" /\ last'.outcome = "resolved")
            => /\ serviceConnected'
               /\ last'.tried \in { << signalRUrl >>,
                                    << signalRUrl, signalRUrlHttp >> }
        /\ (last'.op = "startDone" /\ last'.outcome = "rejected")
            => /\ ~serviceConnected'
               /\ last'.tried = << signalRUrl, signalRUrlHttp >> ]_vars

NonDecreasing(s) == \A k \in 1..(Len(s) - 1) : s[k] <= s[k + 1]

\* C22: the delays of the retries a hub made since its connection was lost
\* never decrease and never exceed 30000 ms, and at most 5 retries are made
C22_ReconnectBackoff ==
    \A c \in Connections :
        /\ NonDecreasing(hubs[c].delays)
        /\ \A k \in 1..Len(hubs[c].delays) : hubs[c].delays[k] <= 30000
        /\ Len(hubs[c].delays) <= 5

\* Build 2 made its five retries, the last after 16000 ms, and the hub closed
C22_Witness ==
    \E c \in Connections :
        /\ build = 2
        /\ hubs[c].state = "Disconnected"
        /\ hubs[c].delays = << 1000, 2000, 4000, 8000, 16000 >>

\* C23: once the retries are exhausted and the connection has closed, the
\* client reports disconnected and invokes nothing, and a start() called in
\* that state makes a new connection attempt instead of returning at once
C23_DownUntilRestart ==
    /\ [](PermanentlyDown => ~serviceConnected)
    /\ [][ /\ (PermanentlyDown /\ last'.op = "outbound") => ~last'.invoked
           /\ (last'.op = "start" /\ last'.down) => ~last'.early ]_vars

C25_SingleConnection ==
    /\ [](Cardinality(LiveConnections) <= 1)
    /\ [][ (last'.op = "serverEvent" /\ handlersSet)
            => last'.deliveries = 1 ]_vars

----------------------------------------------------------------------------
(* Tearing the session down *)

\* The fields of ChatState
Store == << chats, activeChat, messages, onlineUsers, typingUsers,
           unreadCounts, isConnected >>

\* C26: once the provider effect's cleanup has run, no step changes the
\* store any more, and when no start() or stop() is in flight no hub
\* connection is live
C26_TeardownSafety ==
    /\ [][torn => UNCHANGED Store]_vars
    /\ []((torn /\ \A i \in 1..MaxCalls : calls[i] = IdleCall)
            => LiveConnections = {})

----------------------------------------------------------------------------
(* The order of a timeline *)

\* The same message, whatever its id, timestamp and status have become
SameEntry(a, b) ==
    a.chatId = b.chatId /\ a.senderId = b.senderId /\ a.content = b.content

\* C27: a step other than the replacement by loadMessages keeps every entry
\* of every timeline at its position and adds at most one entry, at the end:
\* a received or sent message leaves the old timeline as a prefix of the new
\* one, and the completion of a send rewrites entries in place
C27_ArrivalOrder ==
    [][ last'.op # "loadMessagesResolved"
        => \A c \in Chats :
            /\ Len(messages'[c]) \in { Len(messages[c]), Len(messages[c]) + 1 }
            /\ \A k \in 1..Len(messages[c]) :
                    /\ SameEntry(messages'[c][k], messages[c][k])
                    /\ last'.op \in {"ReceiveMessage", "sendMessage"}
                        => messages'[c][k] = messages[c][k]
            /\ last'.op \in {"sendMessageResolved", "sendMessageRejected"}
                => Len(messages'[c]) = Len(messages[c]) ]_vars

\* A received message followed by a sent one whose entry the completed send
\* rewrote at the second position
C27_Witness ==
    /\ last.op = "sendMessageResolved"
    /\ last.saved.id # sends[last.slot].tempId
    /\ Len(messages[1]) = 2
    /\ messages[1][1].id # last.saved.id
    /\ messages[1][2].id = last.saved.id
    /\ messages[1][2].content = sends[last.slot].content

----------------------------------------------------------------------------
(* The typing indicator *)

\* C28: when the timer fires while the local typing flag is set, that is
\* after typing=true was signalled and with no keystroke since the timer was
\* armed, typing=false is signalled for the timer's chat and the flag is
\* cleared; and every keystroke leaves exactly the timer it arms pending
C28_TypingExpiry ==
    [][ /\ (last'.op = "typingTimeout" /\ isTypingState)
            => /\ Len(last'.sendTyping) = 1
               /\ last'.sendTyping[1].chatId = typingTimeout.chatId
               /\ ~last'.sendTyping[1].isTyping
               /\ ~isTypingState'
        /\ last'.op = "inputChange"
            => /\ typingTimeout'.armed
               /\ typingTimeout'.chatId = activeChat ]_vars

----------------------------------------------------------------------------
(* Display names and direct chats *)

\* C29: the name displayed for a group chat is the chat's name; for a direct
\* chat of the local user and one other participant, in either order, it is
\* the other participant's username; for a direct chat with no participant
\* other than the local user it is 'Unknown User'
C29_DisplayName ==
    [][ last'.op = "getChatDisplayName"
        => LET chat == last'.chat
               ps == chat.participants
           IN  /\ chat.type = "group" => last'.name = chat.name
               /\ (chat.type = "direct" /\ Len(ps) = 2)
                    => /\ (ps[1].userId = Self /\ ps[2].userId # Self)
                            => last'.name = ps[2].username
                       /\ (ps[2].userId = Self /\ ps[1].userId # Self)
                            => last'.name = ps[1].username
               /\ (chat.type = "direct"
                        /\ \A k \in 1..Len(ps) : ps[k].userId = Self)
                    => last'.name = "Unknown User" ]_vars

\* The name of a direct chat whose first participant is the local user
C29_Witness ==
    /\ last.op = "getChatDisplayName"
    /\ last.chat.type = "direct"
    /\ Len(last.chat.participants) = 2
    /\ last.chat.participants[1].userId = Self
    /\ last.chat.participants[2].username = "bob"
    /\ last.name = "bob"

\* C30: createChat with two participant ids, the local user's and another
\* user's, requests the direct-chat endpoint with {userId1: self,
\* userId2: other}; the chat that call adds and opens has type 'direct' and
\* exactly 2 participants; and every direct chat of the list has exactly 2
\* participants
C30_DirectChatCreation ==
    /\ [][ /\ (last'.op = "createChat"
                /\ last'.participantIds \in { << Self, 2 >>, << 2, Self >> })
                => /\ last'.endpoint = "/chat/direct"
                   /\ last'.body = << Self, 2 >>
           /\ (last'.op \in {"createChatResolved", "createChatJoined"}
                /\ last'.endpoint = "/chat/direct" /\ last'.opened)
                => /\ last'.chat.type = "direct"
                   /\ Len(last'.chat.participants) = 2 ]_vars
    /\ [](\A k \in 1..Len(chats) :
            chats[k].type = "direct" => Len(chats[k].participants) = 2)

----------------------------------------------------------------------------
(* The rooms of the channel *)

\* The hub the service would invoke on is connected
Invocable == CanInvoke /\ hubs[connection].state = "Connected"

\* C31: setActiveChat(c) for a chat c makes c the active chat, starts one
\* loadMessages(c) and calls joinChat(c), whose JoinChat(c) reaches a
\* connected hub; setActiveChat(null) changes the active selection and
\* nothing else; and no step that leaves a hub connected takes a room away
\* from it.
C31_SetActiveChatRooms ==
    [][/\ \A c \in Chats \cup {NoChat} :
            (/\ last'.op = "setActiveChat"
             /\ last'.chat = c
             /\ SetActiveChat(c))
            => /\ activeChat' = c
               /\ c # NoChat =>
                    /\ loads'[c] = loads[c] + 1
                    /\ last'.joinChat = << c >>
                    /\ Invocable => c \in hubs'[connection].rooms
               /\ c = NoChat =>
                    /\ last'.joinChat = << >>
                    /\ UNCHANGED << activeChatRef, messages, unreadCounts,
                                    loads, sends, listAndPresence,
                                    clientVars >>
       /\ \A d \in Connections :
            (hubs[d].state = "Connected" /\ hubs'[d].state = "Connected")
            => hubs[d].rooms \subseteq hubs'[d].rooms]_vars

\* C31 happens: both chats were selected in turn on one connection, the
\* selection was then cleared and the connection is still in both rooms.
C31_Witness ==
    /\ last.op = "setActiveChat"
    /\ last.chat = NoChat
    /\ activeChat = NoChat
    /\ Invocable
    /\ hubs[connection].rooms = Chats

----------------------------------------------------------------------------
(* The events of the channel in the store *)

\* userId has an entry in the typing set of some chat
TypingSomewhere(typing, userId) ==
    \E c \in Chats : \E k \in 1..Len(typing[c]) : typing[c][k].userId = userId

\* C32: after a UserTyping event with isTyping = true, delivered by the
\* connection to the provider's handler, the user has an entry in the typing
\* set of some chat; after one with isTyping = false the user has none.
C32_TypingReachesStore ==
    [][(/\ last'.op = "userTyping"
        /\ ServerUserTyping(last'.userId, last'.username, last'.isTyping))
       => (last'.isTyping <=> TypingSomewhere(typingUsers', last'.userId))]_vars

\* C33: when no start() or stop() is in flight, the store's isConnected flag
\* equals the channel client's isConnected; in particular the store reports
\* connected once the start() of the initialization has resolved.
C33_StatusMirrors ==
    (\A i \in 1..MaxCalls : calls[i] = IdleCall)
        => isConnected = serviceConnected

----------------------------------------------------------------------------
(* The ids of a timeline and the completion of a send *)

\* C34: no chat timeline holds two entries with the same id.
C34_UniqueMessageIds ==
    \A c \in Chats :
        \A j, k \in 1..Len(messages[c]) :
            j # k => messages[c][j].id # messages[c][k].id

\* C35: the step that completes the sendMessage call of slot i, confirmed or
\* failed, keeps the length of every timeline and changes no entry other
\* than the one that call appended.
C35_CompletionTouchesOwn ==
    [][\A i \in 1..MaxSends :
        (/\ last'.op \in {"sendMessageResolved", "sendMessageRejected"}
         /\ last'.slot = i
         /\ sends[i].pc = "awaiting"
         /\ sends'[i].pc # "awaiting")
        => \A c \in Chats :
            /\ Len(messages'[c]) = Len(messages[c])
            /\ \A k \in 1..Len(messages[c]) :
                (c # sends[i].chatId \/ k # sends[i].pos)
                    => messages'[c][k] = messages[c][k]]_vars

----------------------------------------------------------------------------
(* The unread counters and the selection *)

\* C36: a 'message received' event whose message the dedup rule drops (no
\* timeline changes) leaves every unread counter as it was and calls no
\* notification callback.
C36_UnreadOnlyAccepted ==
    [][(Received /\ messages' = messages)
       => /\ unreadCounts' = unreadCounts
          /\ last'.notified = << >>]_vars

\* C37: the active chat has no unread messages.
C37_ActiveChatNoUnread ==
    activeChat # NoChat => unreadCounts[activeChat] = 0

----------------------------------------------------------------------------
(* The chat list *)

\* C38: the chat list holds at most one chat per id.
C38_UniqueChats ==
    \A j, k \in 1..Len(chats) : j # k => chats[j].id # chats[k].id

----------------------------------------------------------------------------
(* The session that follows a teardown *)

\* No start() or stop() is in flight
Settled == \A i \in 1..MaxCalls : calls[i] = IdleCall

\* C39: after the teardown and the initialization that follows it at once,
\* a start() that resolves leaves the client with a connected hub, and once
\* no start() or stop() is in flight the client holds a connected hub on
\* which JoinUser was invoked.
C39_ReinitEndsConnected ==
    /\ [][(/\ torn
           /\ \/ last'.op = "start" /\ last'.early
              \/ last'.op = "startDone" /\ last'.outcome = "resolved"
           /\ last' # last)
          => /\ connection' # NoConnection
             /\ hubs'[connection'].state = "Connected"]_vars
    /\ []((torn /\ last.op # "teardown" /\ Settled)
            => Invocable /\ hubs[connection].user)

\* C40: when the client is connected, no start() or stop() is in flight and
\* a chat is active, JoinChat was invoked for that chat on the connection
\* the client holds.
C40_RoomFollowsActive ==
    (Invocable /\ Settled /\ activeChat # NoChat)
        => activeChat \in hubs[connection].rooms

====
